---------------------------- MODULE Spec2Model ----------------------------
(***************************************************************************)
(* The IntCode machine of src/aoc/src/intcode.rs as a state machine.       *)
(*                                                                         *)
(* A Machine is the record [ip, rbo, memory, input] of the struct's four   *)
(* fields.  Every method is a pure operator from a machine to an outcome   *)
(* record [m, panic, val]: the machine as the method leaves it, whether    *)
(* the method panicked, and its value.  The public calls are the actions   *)
(* Input, Run, RunWithInput, Read and Write; the loop of Machine::run is   *)
(* the action Step, one exec_next_instruction per step, and pc is the      *)
(* position of the caller: "idle" between calls, "running" inside the      *)
(* loop of run, "panicked" once a panic unwinds.                           *)
(*                                                                         *)
(* Integers are scaled: TLC computes with 32-bit integers, so i64 is       *)
(* modelled as the two's complement range -I64_MAX-1 .. I64_MAX and usize  *)
(* as 0 .. USIZE_MAX = 2*I64_MAX+1, the same relation the 64-bit types     *)
(* have.  Overflowing arithmetic panics when the build has overflow        *)
(* checks (debug) and wraps when it has not (release): overflow_checks is  *)
(* chosen once, in Init.                                                   *)
(***************************************************************************)
EXTENDS Integers, Sequences, FiniteSets

VARIABLES
    overflow_checks, \* the build profile: TRUE = debug, FALSE = release
    program,         \* the Program the machine was constructed from
    machine,         \* the Machine: [ip, rbo, memory, input]
    pc,              \* "idle" | "running" | "panicked"
    op,              \* the last public call: "new", "input", "run", "read", "write"
    arg,             \* the [address, value] passed to the last public call
    ret,             \* the value the last completed call returned
    steps,           \* instructions executed so far that changed the machine
    writes,          \* public write() calls so far
    fed,             \* every value passed to input(), in call order
    ntaken,          \* values popped from the queue by Input instructions
    pending,         \* the resume that input() set up at a starved Input
    shadow           \* the second machine of the resumability comparison

vars == <<overflow_checks, program, machine, pc, op, arg, ret, steps, writes,
          fed, ntaken, pending, shadow>>

(***************************************************************************)
(* Bounds of the model.                                                    *)
(***************************************************************************)
I64_MAX == 32767
MaxMemory == 14
MaxSteps == 10
MaxInputs == 3
MaxWrites == 2
MaxAddr == 5
MaxMachines == 2
MaxCalls == 4
MaxOutputs == 17
MaxAsciiInputs == 6
MaxPasses == 4
MaxPackets == 3
MaxRuns == 6

I64_MIN == -I64_MAX - 1
USIZE_MAX == 2 * I64_MAX + 1
USIZE_MOD == USIZE_MAX + 1
\* Vec<i64> holds at most isize::MAX bytes, 8 bytes an element.
VEC_MAX_LEN == I64_MAX \div 8

InputValues == {-1, 0, 8}
WriteValues == {2, 99}

(***************************************************************************)
(* The programs machines are constructed from: the programs of the         *)
(* module's documentation and of test_machine_run, and small programs      *)
(* that reach each pause condition, each addressing mode and each panic.   *)
(***************************************************************************)
Programs ==
    { <<99>>,
      <<3, 0, 4, 0, 99>>,
      <<3, 10, 4, 10, 99>>,
      <<104, 1, 104, 2, 104, 3, 99>>,
      <<1, 0, 0, 0, 99>>,
      <<1002, 4, 3, 4, 33>>,
      <<3, 9, 8, 9, 10, 9, 4, 9, 99, -1, 8>>,
      <<3, 3, 1105, -1, 9, 1101, 0, 0, 12, 4, 12, 99, 1>>,
      <<3, 0, 3, 1, 4, 0, 4, 1, 99>>,
      <<3, 8, 4, 8, 1105, 1, 0>>,
      <<109, 2, 203, 3, 204, 3, 99>>,
      <<4, 12, 99>>,
      <<4, -1, 99>>,
      <<3, -1, 99>>,
      <<103, 0, 99>>,
      <<104, 5>>,
      <<3, 0, 1006, 0, -1, 99>> }

\* The programs of the memory interface's specification: the programs of
\* test_machine_run that take no input, and programs that read and write
\* beyond their length.
MemoryPrograms ==
    { <<99>>,
      <<1, 0, 0, 0, 99>>,
      <<2, 3, 0, 3, 99>>,
      <<2, 4, 4, 5, 99, 0>>,
      <<1, 1, 1, 4, 99, 5, 6, 0, 99>>,
      <<1002, 4, 3, 4, 33>>,
      <<1101, 100, -1, 4, 0>>,
      <<104, 1, 104, 2, 104, 3, 99>>,
      <<1101, 1, 2, 9, 4, 9, 99>>,
      <<109, 3, 21101, 4, 3, 7, 204, 7, 99>>,
      <<4, 12, 99>>,
      <<4, -1, 99>>,
      <<3, 0, 99>> }

(***************************************************************************)
(* Rust's integer operations.                                              *)
(***************************************************************************)
\* i64 / and %: the quotient truncates toward zero, the remainder has the
\* sign of the dividend.
i64_div(a, b) == IF a >= 0 THEN a \div b ELSE -((-a) \div b)

\* Mutant of i64_rem: the remainder of the floor quotient, never negative.
i64_rem_floor(a, b) == a % b

i64_rem(a, b) == a - b * i64_div(a, b)

\* The two's complement value of x in the i64 range.
wrap_i64(x) == ((x - I64_MIN) % USIZE_MOD) + I64_MIN

\* `v as usize`: the same bits read as unsigned.
as_usize(v) == v % USIZE_MOD

\* An i64 result: exact in range; out of range a panic with overflow
\* checks, the wrapped value without.
i64_checked(x) ==
    IF x >= I64_MIN /\ x <= I64_MAX
    THEN [panic |-> FALSE, val |-> x]
    ELSE [panic |-> overflow_checks, val |-> wrap_i64(x)]

\* std::ops::Add::add and std::ops::Mul::mul on i64.
add(a, b) == i64_checked(a + b)

\* Mutant of mul: the product is computed at half the width.
mul_narrow(a, b) ==
    [panic |-> FALSE, val |-> ((a * b + 128) % 256) - 128]

mul(a, b) == i64_checked(a * b)

\* Mutant of less_than: a <= b.
less_than_or_equal(a, b) == [panic |-> FALSE, val |-> IF a <= b THEN 1 ELSE 0]

less_than(a, b) == [panic |-> FALSE, val |-> IF a < b THEN 1 ELSE 0]

equals(a, b) == [panic |-> FALSE, val |-> IF a = b THEN 1 ELSE 0]

\* Vec::resize(new_len, value): truncates or appends copies of value.
resize(vec, new_len, value) ==
    IF new_len <= Len(vec)
    THEN SubSeq(vec, 1, new_len)
    ELSE vec \o [i \in 1..(new_len - Len(vec)) |-> value]

(***************************************************************************)
(* Outcomes of a method.                                                   *)
(***************************************************************************)
Ok(m, v) == [m |-> m, panic |-> FALSE, val |-> v]

Panic(m) == [m |-> m, panic |-> TRUE, val |-> 0]

\* enum NextAction
Continue == [kind |-> "Continue", value |-> 0]

Halt == [kind |-> "Halt", value |-> 0]

Output(v) == [kind |-> "Output", value |-> v]

\* Option<i64> and the other return values of the public calls
None == [tag |-> "None", value |-> 0]

Some(v) == [tag |-> "Some", value |-> v]

Unit == [tag |-> "unit", value |-> 0]

I64(v) == [tag |-> "i64", value |-> v]

Bool(b) == [tag |-> "bool", value |-> IF b THEN 1 ELSE 0]

(***************************************************************************)
(* Decoding.                                                               *)
(***************************************************************************)
Opcode_new(value) ==
    LET opcode == i64_rem(value, 100)
    IN  CASE opcode = 99 -> "Halt"
          [] opcode = 1 -> "Add"
          [] opcode = 2 -> "Mul"
          [] opcode = 3 -> "Input"
          [] opcode = 4 -> "Output"
          [] opcode = 5 -> "JumpIfTrue"
          [] opcode = 6 -> "JumpIfFalse"
          [] opcode = 7 -> "LessThan"
          [] opcode = 8 -> "Equals"
          [] opcode = 9 -> "AdjustRelativeBase"
          [] OTHER -> "panic"

pow10(n) == IF n = 0 THEN 1 ELSE IF n = 1 THEN 10 ELSE 100

\* Mutant of ParameterMode_new: operand 0 takes the leading digit.
ParameterMode_new_reversed(instruction, param_index) ==
    LET all_modes == i64_div(instruction, 100)
        mode == i64_rem(i64_div(all_modes, pow10(2 - param_index)), 10)
    IN  CASE mode = 0 -> "Position"
          [] mode = 1 -> "Immediate"
          [] mode = 2 -> "Relative"
          [] OTHER -> "panic"

ParameterMode_new(instruction, param_index) ==
    LET all_modes == i64_div(instruction, 100)
        mode == i64_rem(i64_div(all_modes, pow10(param_index)), 10)
    IN  CASE mode = 0 -> "Position"
          [] mode = 1 -> "Immediate"
          [] mode = 2 -> "Relative"
          [] OTHER -> "panic"

Instruction_new(value) == [value |-> value, opcode |-> Opcode_new(value)]

(***************************************************************************)
(* Sequencing.  Let(x, k) is `let x = ...; k`, and Then(o, k) continues    *)
(* with k after a call that returned the outcome o and unwinds, with the   *)
(* machine as the call left it, when the call panicked.                    *)
(***************************************************************************)
Let(x, k(_)) == k(x)

Then(o, k(_)) == IF o.panic THEN Panic(o.m) ELSE k(o)

\* The outcome of an integer operation r on machine m.
Lift(m, r) == [m |-> m, panic |-> r.panic, val |-> r.val]

(***************************************************************************)
(* Machine: construction and memory.                                       *)
(***************************************************************************)
Machine_new(p) == [ip |-> 0, rbo |-> 0, memory |-> p, input |-> <<>>]

\* Mutant of input: the value is pushed at the back, the end pop_back
\* takes from.
input_push_back(m, value) == [m EXCEPT !.input = Append(@, value)]

\* VecDeque::push_front: index 1 is the front of the deque.
input(m, value) == [m EXCEPT !.input = <<value>> \o m.input]

\* Mutant of read: an address beyond the memory reads as a Halt.
read_halt(m, address) ==
    IF address < Len(m.memory) THEN m.memory[address + 1] ELSE 99

read(m, address) ==
    IF address < Len(m.memory) THEN m.memory[address + 1] ELSE 0

\* Mutant of ensure_memory: the vector is resized to max_address, one
\* element short.
ensure_memory_short(m, max_address) ==
    IF max_address >= Len(m.memory)
    THEN Ok([m EXCEPT !.memory = resize(m.memory, max_address, 0)], 0)
    ELSE Ok(m, 0)

\* max_address + 1 overflows for usize::MAX alone: a panic with overflow
\* checks, and 0 without, so that resize(0, 0) empties the vector.  A
\* length above VEC_MAX_LEN is Vec's "capacity overflow" panic.
ensure_memory(m, max_address) ==
    IF max_address >= Len(m.memory)
    THEN IF max_address = USIZE_MAX
         THEN IF overflow_checks
              THEN Panic(m)
              ELSE Ok([m EXCEPT !.memory = resize(m.memory, 0, 0)], 0)
         ELSE IF max_address + 1 > VEC_MAX_LEN
              THEN Panic(m)
              ELSE Ok([m EXCEPT !.memory = resize(m.memory, max_address + 1, 0)], 0)
    ELSE Ok(m, 0)

\* self.memory[address] panics when address is not below the length.
write(m, address, value) ==
    Then(ensure_memory(m, address), LAMBDA e :
        IF address >= Len(e.m.memory)
        THEN Panic(e.m)
        ELSE Ok([e.m EXCEPT !.memory[address + 1] = value], 0))

read_mut(m, address) ==
    Then(ensure_memory(m, address), LAMBDA e :
        IF address >= Len(e.m.memory)
        THEN Panic(e.m)
        ELSE Ok(e.m, e.m.memory[address + 1]))

\* Mutant of read_instruction: the instruction decoded when the machine was
\* built is kept for each address.
read_instruction_cached(m) ==
    Instruction_new(IF m.ip < Len(program) THEN program[m.ip + 1] ELSE 0)

read_instruction(m) == Instruction_new(read(m, m.ip))

\* Mutant of is_halted: a word without an opcode is not a Halt.
is_halted_total(m) ==
    Let(read_instruction(m), LAMBDA i : Ok(m, i.opcode = "Halt"))

\* The queries decode the word at ip, and panic as Opcode::new does.
is_halted(m) ==
    Let(read_instruction(m), LAMBDA i :
        IF i.opcode = "panic" THEN Panic(m) ELSE Ok(m, i.opcode = "Halt"))

\* Mutant of is_awaiting_input: an Input with values buffered is not awaited.
is_awaiting_input_starved(m) ==
    Let(read_instruction(m), LAMBDA i :
        IF i.opcode = "panic" THEN Panic(m)
        ELSE Ok(m, i.opcode = "Input" /\ m.input = <<>>))

is_awaiting_input(m) ==
    Let(read_instruction(m), LAMBDA i :
        IF i.opcode = "panic" THEN Panic(m) ELSE Ok(m, i.opcode = "Input"))

(***************************************************************************)
(* Operand resolution.  The operand offsets ip + param + 1 and the ip      *)
(* increments are computed without wrapping: an instruction executes only  *)
(* after the word at ip decoded to an opcode, so ip is below the memory    *)
(* length, which is at most VEC_MAX_LEN.                                   *)
(***************************************************************************)
\* param is zero indexed
exec_read(m, param) ==
    Let(read(m, m.ip + param + 1), LAMBDA value :
    Let(ParameterMode_new(read_instruction(m).value, param), LAMBDA mode :
        CASE mode = "Position" -> read_mut(m, as_usize(value))
          [] mode = "Immediate" -> Ok(m, value)
          [] mode = "Relative" ->
                Then(Lift(m, add(m.rbo, value)), LAMBDA pos :
                    read_mut(m, as_usize(pos.val)))
          [] OTHER -> Panic(m)))

\* Mutant of exec_write: an Immediate operand is written through as a
\* Position operand is.
exec_write_through(m, param, value) ==
    Let(read(m, m.ip + param + 1), LAMBDA offset :
    Let(ParameterMode_new(read_instruction(m).value, param), LAMBDA mode :
        CASE mode \in {"Position", "Immediate"} ->
                write(m, as_usize(offset), value)
          [] mode = "Relative" ->
                Then(Lift(m, add(m.rbo, offset)), LAMBDA address :
                    write(m, as_usize(address.val), value))
          [] OTHER -> Panic(m)))

\* param is zero indexed
exec_write(m, param, value) ==
    Let(read(m, m.ip + param + 1), LAMBDA offset :
    Let(ParameterMode_new(read_instruction(m).value, param), LAMBDA mode :
        CASE mode = "Position" -> write(m, as_usize(offset), value)
          [] mode = "Relative" ->
                Then(Lift(m, add(m.rbo, offset)), LAMBDA address :
                    write(m, as_usize(address.val), value))
          [] OTHER -> Panic(m)))

(***************************************************************************)
(* The instructions.                                                       *)
(***************************************************************************)
exec_binary_op(m, func(_, _)) ==
    Then(exec_read(m, 0), LAMBDA v1 :
    Then(exec_read(v1.m, 1), LAMBDA v2 :
    Then(Lift(v2.m, func(v1.val, v2.val)), LAMBDA result :
    Then(exec_write(result.m, 2, result.val), LAMBDA w :
        Ok([w.m EXCEPT !.ip = @ + 4], Continue)))))

exec_jump_if_op(m, predicate(_)) ==
    Then(exec_read(m, 0), LAMBDA value :
        IF predicate(value.val)
        THEN Then(exec_read(value.m, 1), LAMBDA dest :
                 Ok([dest.m EXCEPT !.ip = as_usize(dest.val)], Continue))
        ELSE Ok([value.m EXCEPT !.ip = @ + 3], Continue))

is_zero(v) == v = 0

\* Mutant of is_nonzero: v > 0.
is_positive(v) == v > 0

is_nonzero(v) == v # 0

\* Mutant of pop_back: the value is taken from the front.
pop_front(m) ==
    IF m.input = <<>>
    THEN Ok(m, None)
    ELSE Ok([m EXCEPT !.input = Tail(@)], Some(Head(m.input)))

\* VecDeque::pop_back: None on an empty deque, else the last element,
\* which it removes.
pop_back(m) ==
    IF m.input = <<>>
    THEN Ok(m, None)
    ELSE Ok([m EXCEPT !.input = SubSeq(@, 1, Len(@) - 1)],
            Some(m.input[Len(m.input)]))

\* Mutant of exec_input_op: a starved Input is skipped.
exec_input_op_skips(m) ==
    Let(pop_back(m), LAMBDA popped :
        IF popped.val = None
        THEN Ok([popped.m EXCEPT !.ip = @ + 2], Halt)
        ELSE Then(exec_write(popped.m, 0, popped.val.value), LAMBDA w :
                 Ok([w.m EXCEPT !.ip = @ + 2], Continue)))

\* Mutant of exec_input_op: the instruction pointer stays on the Input.
exec_input_op_no_advance(m) ==
    Let(pop_back(m), LAMBDA popped :
        IF popped.val = None
        THEN Ok(popped.m, Halt)
        ELSE Then(exec_write(popped.m, 0, popped.val.value), LAMBDA w :
                 Ok(w.m, Continue)))

\* Mutant of exec_input_op: the loop is left after the value is stored.
exec_input_op_halts(m) ==
    Let(pop_back(m), LAMBDA popped :
        IF popped.val = None
        THEN Ok(popped.m, Halt)
        ELSE Then(exec_write(popped.m, 0, popped.val.value), LAMBDA w :
                 Ok([w.m EXCEPT !.ip = @ + 2], Halt)))

\* Mutant of exec_input_op: the mode of the operand is checked before a
\* value is taken from the queue.
exec_input_op_checks_first(m) ==
    IF ParameterMode_new(read_instruction(m).value, 0) = "Immediate"
    THEN Panic(m)
    ELSE Let(pop_back(m), LAMBDA popped :
             IF popped.val = None
             THEN Ok(popped.m, Halt)
             ELSE Then(exec_write(popped.m, 0, popped.val.value), LAMBDA w :
                      Ok([w.m EXCEPT !.ip = @ + 2], Continue)))

exec_input_op(m) ==
    Let(pop_back(m), LAMBDA popped :
        IF popped.val = None
        THEN Ok(popped.m, Halt)
        ELSE Then(exec_write(popped.m, 0, popped.val.value), LAMBDA w :
                 Ok([w.m EXCEPT !.ip = @ + 2], Continue)))

\* Mutant of exec_output_op: the operand itself is output, whatever its mode.
exec_output_op_raw(m) ==
    Ok([m EXCEPT !.ip = @ + 2], Output(read(m, m.ip + 1)))

exec_output_op(m) ==
    Then(exec_read(m, 0), LAMBDA value :
        Ok([value.m EXCEPT !.ip = @ + 2], Output(value.val)))

\* Mutant of exec_adjust_rbo: the relative base is set, not adjusted.
exec_adjust_rbo_sets(m) ==
    Then(exec_read(m, 0), LAMBDA value :
        Ok([value.m EXCEPT !.rbo = value.val, !.ip = @ + 2], Continue))

exec_adjust_rbo(m) ==
    Then(exec_read(m, 0), LAMBDA value :
    Then(Lift(value.m, add(value.m.rbo, value.val)), LAMBDA sum :
        Ok([sum.m EXCEPT !.rbo = sum.val, !.ip = @ + 2], Continue)))

\* Mutant of exec_halt: Halt advances like every other instruction.
exec_halt_advances(m) == Ok([m EXCEPT !.ip = @ + 1], Halt)

exec_halt(m) == Ok(m, Halt)

exec_next_instruction(m) ==
    Let(read_instruction(m).opcode, LAMBDA opcode :
        CASE opcode = "Halt" -> exec_halt(m)
          [] opcode = "Add" -> exec_binary_op(m, add)
          [] opcode = "Mul" -> exec_binary_op(m, mul)
          [] opcode = "Input" -> exec_input_op(m)
          [] opcode = "Output" -> exec_output_op(m)
          [] opcode = "JumpIfFalse" -> exec_jump_if_op(m, is_zero)
          [] opcode = "JumpIfTrue" -> exec_jump_if_op(m, is_nonzero)
          [] opcode = "LessThan" -> exec_binary_op(m, less_than)
          [] opcode = "Equals" -> exec_binary_op(m, equals)
          [] opcode = "AdjustRelativeBase" -> exec_adjust_rbo(m)
          [] OTHER -> Panic(m))

(***************************************************************************)
(* Machine::run as one call: the loop runs exec_next_instruction until an  *)
(* instruction halts or outputs.  The loop has no bound of its own; the    *)
(* model gives it MaxSteps iterations and reports a call that needs more   *)
(* as not returned.                                                        *)
(***************************************************************************)
RECURSIVE run_loop(_, _)
run_loop(m, fuel) ==
    IF fuel = 0
    THEN [m |-> m, panic |-> FALSE, val |-> None, returned |-> FALSE]
    ELSE Let(exec_next_instruction(m), LAMBDA action :
             IF action.panic
             THEN [m |-> action.m, panic |-> TRUE, val |-> None, returned |-> FALSE]
             ELSE IF action.val.kind = "Continue"
             THEN run_loop(action.m, fuel - 1)
             ELSE [m |-> action.m, panic |-> FALSE, returned |-> TRUE,
                   val |-> IF action.val.kind = "Output"
                           THEN Some(action.val.value) ELSE None])

run(m) == run_loop(m, MaxSteps)

run_with_input(m, value) == run(input(m, value))

(***************************************************************************)
(* The public calls.  A Machine has one owner (&mut self): no call starts  *)
(* while run is in its loop.                                               *)
(***************************************************************************)
RunOps == {"run", "run_with_input"}

Arg(address, value) == [address |-> address, value |-> value]

NoPending == [status |-> "none", at |-> 0, value |-> 0]

NoShadow ==
    [machine |-> Machine_new(<<>>), inputs |-> <<>>, buffered |-> 0,
     outA |-> <<>>, outB |-> <<>>, readsB |-> <<>>]

\* run() returned None at an Input instruction with nothing buffered.
Starved ==
    /\ pc = "idle"
    /\ op \in RunOps
    /\ ret = None
    /\ read_instruction(machine).opcode = "Input"
    /\ machine.input = <<>>

\* input(value) at a starved Input arms the resume; further input() calls
\* keep it.
Armed(value) ==
    IF Starved
    THEN [status |-> "armed", at |-> machine.ip, value |-> value]
    ELSE IF op = "input" /\ pending.status = "armed" THEN pending ELSE NoPending

TypeOK ==
    /\ overflow_checks \in BOOLEAN
    /\ program \in Programs \cup MemoryPrograms
    /\ machine.ip \in 0..USIZE_MAX
    /\ machine.rbo \in I64_MIN..I64_MAX
    /\ \A i \in 1..Len(machine.memory) : machine.memory[i] \in I64_MIN..I64_MAX
    /\ Len(machine.memory) <= MaxMemory
    /\ \A i \in 1..Len(machine.input) : machine.input[i] \in InputValues
    /\ pc \in {"idle", "running", "iterating", "panicked", "folding",
              "checking", "returned", "top", "polling", "draining", "nat"}
    /\ op \in {"new", "input", "run", "run_with_input", "read", "write",
             "decode", "Program::write", "run_as_iter", "next", "drop",
             "run_as_ascii", "input_ascii", "is_halted", "is_awaiting_input",
             "Amplifier::new", "Amplifier::run", "Amplifier::run_feedback",
             "NetworkComputer::new", "NetworkComputer::run", "run_network"}
    /\ ret.tag \in {"None", "Some", "unit", "i64", "Instruction", "String",
                    "bool", "Vec"}
    /\ steps \in 0..MaxSteps
    /\ writes \in 0..MaxWrites
    /\ Len(fed) <= MaxInputs
    /\ ntaken \in 0..MaxInputs
    /\ pending.status \in {"none", "armed", "resumed"}

InitMachine ==
    /\ overflow_checks \in BOOLEAN
    /\ machine = Machine_new(program)
    /\ pc = "idle"
    /\ op = "new"
    /\ arg = Arg(0, 0)
    /\ ret = Unit
    /\ steps = 0
    /\ writes = 0
    /\ fed = <<>>
    /\ ntaken = 0
    /\ pending = NoPending

Init ==
    /\ program \in Programs
    /\ InitMachine
    /\ shadow = NoShadow

Input(value) ==
    /\ pc = "idle"
    /\ Len(fed) < MaxInputs
    /\ machine' = input(machine, value)
    /\ op' = "input"
    /\ arg' = Arg(0, value)
    /\ ret' = Unit
    /\ fed' = Append(fed, value)
    /\ pending' = Armed(value)
    /\ UNCHANGED <<overflow_checks, program, pc, steps, writes, ntaken, shadow>>

\* run(): enter the loop.
Run ==
    /\ pc = "idle"
    /\ pc' = "running"
    /\ op' = "run"
    /\ arg' = Arg(0, 0)
    /\ ret' = Unit
    /\ UNCHANGED <<overflow_checks, program, machine, steps, writes, fed,
                   ntaken, pending, shadow>>

\* run_with_input(input): self.input(input), then run() enters the loop.
RunWithInput(value) ==
    /\ pc = "idle"
    /\ Len(fed) < MaxInputs
    /\ machine' = input(machine, value)
    /\ pc' = "running"
    /\ op' = "run_with_input"
    /\ arg' = Arg(0, value)
    /\ ret' = Unit
    /\ fed' = Append(fed, value)
    /\ pending' = Armed(value)
    /\ UNCHANGED <<overflow_checks, program, steps, writes, ntaken, shadow>>

\* One iteration of the loop of run(): exec_next_instruction and the match
\* on its NextAction.  A panic unwinds out of run() with the machine as
\* the panicking method left it.
Step ==
    /\ pc = "running"
    /\ Let(exec_next_instruction(machine), LAMBDA o :
           /\ Len(o.m.memory) <= MaxMemory
           /\ o.m # machine => steps < MaxSteps
           /\ machine' = o.m
           /\ pc' = IF o.panic THEN "panicked"
                    ELSE IF o.val.kind = "Continue" THEN "running" ELSE "idle"
           /\ ret' = IF o.panic THEN ret
                     ELSE IF o.val.kind = "Output" THEN Some(o.val.value)
                     ELSE IF o.val.kind = "Halt" THEN None ELSE ret
           /\ steps' = IF o.m # machine THEN steps + 1 ELSE steps
           /\ ntaken' = ntaken + (Len(machine.input) - Len(o.m.input))
           /\ pending' = IF pending.status = "armed" /\ ~o.panic
                         THEN [pending EXCEPT !.status = "resumed"]
                         ELSE NoPending)
    /\ UNCHANGED <<overflow_checks, program, op, arg, writes, fed, shadow>>

\* Mutant of Read: the address is read through read_mut.
Read_growing(address) ==
    /\ pc = "idle"
    /\ op' = "read"
    /\ arg' = Arg(address, 0)
    /\ Let(read_mut(machine, address), LAMBDA o :
           /\ machine' = o.m
           /\ ret' = I64(o.val))
    /\ UNCHANGED <<overflow_checks, program, pc, steps, writes, fed,
                   ntaken, pending, shadow>>

Read(address) ==
    /\ pc = "idle"
    /\ op' = "read"
    /\ arg' = Arg(address, 0)
    /\ ret' = I64(read(machine, address))
    /\ UNCHANGED <<overflow_checks, program, machine, pc, steps, writes, fed,
                   ntaken, pending, shadow>>

Write(address, value) ==
    /\ pc = "idle"
    /\ writes < MaxWrites
    /\ Let(write(machine, address, value), LAMBDA o :
           /\ machine' = o.m
           /\ pc' = IF o.panic THEN "panicked" ELSE "idle")
    /\ op' = "write"
    /\ arg' = Arg(address, value)
    /\ ret' = Unit
    /\ writes' = writes + 1
    /\ pending' = NoPending
    /\ UNCHANGED <<overflow_checks, program, steps, fed, ntaken, shadow>>

(***************************************************************************)
(* Spec: the execution protocol, input(), run() and run_with_input() on a  *)
(* machine built from any of Programs.                                     *)
(***************************************************************************)
Next ==
    \/ \E value \in InputValues : Input(value)
    \/ Run
    \/ \E value \in InputValues : RunWithInput(value)
    \/ Step

Spec == Init /\ [][Next]_vars

(***************************************************************************)
(* SpecMemory: the memory interface, read() and write() between run()      *)
(* calls, on programs that take no input.                                  *)
(***************************************************************************)
InitMemory ==
    /\ program \in MemoryPrograms
    /\ InitMachine
    /\ shadow = NoShadow

NextMemory ==
    \/ Run
    \/ Step
    \/ \E address \in 0..MaxAddr : Read(address)
    \/ \E address \in 0..MaxAddr, value \in WriteValues : Write(address, value)

SpecMemory == InitMemory /\ [][NextMemory]_vars

(***************************************************************************)
(* SpecResume: one input sequence given to two machines built from the     *)
(* same program.  `machine` receives it split, one run_with_input(i) call  *)
(* per value; shadow.machine has all of it buffered with input() before    *)
(* its first run().  outA and outB are the values the calls returned and   *)
(* readsB the number of values each run() of shadow.machine consumed.      *)
(***************************************************************************)
InitResume ==
    /\ program \in Programs
    /\ InitMachine
    /\ \E n \in 0..MaxInputs : \E inputs \in [1..n -> InputValues] :
          shadow = [NoShadow EXCEPT !.machine = Machine_new(program),
                                    !.inputs = inputs]

\* shadow.machine.input(i) for the next value of the sequence.
BufferUpfront ==
    /\ pc = "idle"
    /\ shadow.buffered < Len(shadow.inputs)
    /\ shadow' = [shadow EXCEPT
                    !.machine = input(@, shadow.inputs[shadow.buffered + 1]),
                    !.buffered = @ + 1]
    /\ UNCHANGED <<overflow_checks, program, machine, pc, op, arg, ret, steps,
                   writes, fed, ntaken, pending>>

\* shadow.machine.run(), once everything is buffered.
RunUpfront ==
    /\ pc = "idle"
    /\ shadow.buffered = Len(shadow.inputs)
    /\ Len(shadow.outB) < Len(shadow.inputs)
    /\ Let(run(shadow.machine), LAMBDA r :
           /\ r.returned \/ r.panic
           /\ pc' = IF r.panic THEN "panicked" ELSE "idle"
           /\ shadow' = IF r.panic
                        THEN [shadow EXCEPT !.machine = r.m]
                        ELSE [shadow EXCEPT
                                !.machine = r.m,
                                !.outB = Append(@, r.val),
                                !.readsB = Append(@, Len(shadow.machine.input)
                                                     - Len(r.m.input))])
    /\ UNCHANGED <<overflow_checks, program, machine, op, arg, ret, steps,
                   writes, fed, ntaken, pending>>

\* machine.run_with_input(i) for the next value of the sequence.
RunSplit ==
    /\ pc = "idle"
    /\ Len(fed) < Len(shadow.inputs)
    /\ Let(shadow.inputs[Len(fed) + 1], LAMBDA value :
       Let(run_with_input(machine, value), LAMBDA r :
           /\ r.returned \/ r.panic
           /\ machine' = r.m
           /\ pc' = IF r.panic THEN "panicked" ELSE "idle"
           /\ op' = "run_with_input"
           /\ arg' = Arg(0, value)
           /\ ret' = IF r.panic THEN Unit ELSE r.val
           /\ fed' = Append(fed, value)
           /\ ntaken' = ntaken + (Len(machine.input) + 1 - Len(r.m.input))
           /\ shadow' = IF r.panic
                        THEN shadow
                        ELSE [shadow EXCEPT !.outA = Append(@, r.val)]))
    /\ UNCHANGED <<overflow_checks, program, steps, writes, pending>>

NextResume ==
    \/ BufferUpfront
    \/ RunUpfront
    \/ RunSplit

SpecResume == InitResume /\ [][NextResume]_vars

(***************************************************************************)
(* The vocabulary of the properties: an operand, the effective address of  *)
(* a Position or Relative operand, and read(p) of an operand under its     *)
(* mode as the instruction table defines it.                               *)
(***************************************************************************)
OpcodeAt(m) == read_instruction(m).opcode

\* The word at address a of the conceptually infinite, zero-filled memory.
Mem(m, a) == IF a >= 0 /\ a < Len(m.memory) THEN m.memory[a + 1] ELSE 0

ModeOf(m, param) == ParameterMode_new(Mem(m, m.ip), param)

Operand(m, param) == Mem(m, m.ip + param + 1)

EffectiveAddress(m, param) ==
    IF ModeOf(m, param) = "Relative"
    THEN m.rbo + Operand(m, param)
    ELSE Operand(m, param)

OperandValue(m, param) ==
    IF ModeOf(m, param) = "Immediate"
    THEN Operand(m, param)
    ELSE Mem(m, EffectiveAddress(m, param))

Halted(m) == is_halted(m) = Ok(m, TRUE)

AwaitingInput(m) == is_awaiting_input(m) = Ok(m, TRUE)

Reverse(s) == [i \in 1..Len(s) |-> s[Len(s) + 1 - i]]

\* Every address reads the same in m2 as in m1.
SameReads(m1, m2) ==
    \A a \in 0..(Len(m1.memory) + Len(m2.memory)) : Mem(m2, a) = Mem(m1, a)

(***************************************************************************)
(* C1.  Halt is idempotent: with a Halt instruction at the instruction     *)
(* pointer, a run() returns None at its first step and leaves the machine  *)
(* as it was, input() changes the queue only, and after every step the     *)
(* machine is still halted, with the same instruction pointer, relative    *)
(* base and memory.                                                        *)
(***************************************************************************)
C1_HaltIdempotent ==
    [][Halted(machine) =>
        /\ Halted(machine')
        /\ machine'.ip = machine.ip
        /\ machine'.rbo = machine.rbo
        /\ machine'.memory = machine.memory
        /\ pc = "running" => (pc' = "idle" /\ ret' = None /\ machine' = machine)
        /\ machine'.input # machine.input =>
              (pc = "idle" /\ op' \in {"input", "run_with_input"})]_vars

\* A run() has returned None on a halted machine that executed
\* instructions before and has input buffered.
C1_Witness ==
    /\ pc = "idle"
    /\ op \in RunOps
    /\ ret = None
    /\ Halted(machine)
    /\ steps > 0
    /\ machine.input # <<>>

(***************************************************************************)
(* C2.  Input starvation is a pause, not a step: the loop of run() at an   *)
(* Input instruction with an empty queue returns None and leaves the       *)
(* instruction pointer, the relative base, the memory and the queue as     *)
(* they were.                                                              *)
(***************************************************************************)
C2_StarvedInputPauses ==
    [][(pc = "running" /\ OpcodeAt(machine) = "Input" /\ machine.input = <<>>) =>
        (pc' = "idle" /\ ret' = None /\ machine' = machine)]_vars

\* run() has returned None at an Input instruction after executing others.
C2_Witness == Starved /\ steps > 0 /\ machine.ip > 0

(***************************************************************************)
(* C3.  Resume after starvation: when input(v) followed a run() that       *)
(* returned None at a starved Input at address a, the first step of the    *)
(* next run() is that Input instruction; it stores v at the instruction's  *)
(* write target, sets the instruction pointer to a + 2 and stays in the    *)
(* loop.                                                                   *)
(***************************************************************************)
C3_ResumeAfterStarvation ==
    [][(pending.status = "armed" /\ pc = "running") =>
        /\ machine.ip = pending.at
        /\ OpcodeAt(machine) = "Input"
        /\ pc' # "panicked" =>
              /\ pc' = "running"
              /\ machine'.ip = pending.at + 2
              /\ Mem(machine', EffectiveAddress(machine, 0)) = pending.value
              /\ pending'.status = "resumed"]_vars

\* The resumed Input has stored a non-zero value and moved on.
C3_Witness ==
    /\ pending.status = "resumed"
    /\ pending.value # 0
    /\ pending.at > 0
    /\ machine.ip = pending.at + 2

(***************************************************************************)
(* C4.  Output pauses immediately: an Output instruction at address a      *)
(* ends the run() call with Some(read(p0)), the instruction pointer at     *)
(* a + 2 and nothing else changed but memory grown by zeros; between       *)
(* calls the instruction pointer does not move, so the next run() decodes  *)
(* the instruction at a + 2.                                               *)
(***************************************************************************)
C4_OutputPausesImmediately ==
    [][/\ (pc = "running" /\ OpcodeAt(machine) = "Output" /\ pc' # "panicked") =>
            /\ pc' = "idle"
            /\ ret' = Some(OperandValue(machine, 0))
            /\ machine'.ip = machine.ip + 2
            /\ machine'.rbo = machine.rbo
            /\ machine'.input = machine.input
            /\ SameReads(machine, machine')
       /\ pc = "idle" => machine'.ip = machine.ip]_vars

\* run() has returned a non-zero value read through a Position or
\* Relative operand.
C4_Witness ==
    /\ pc = "idle"
    /\ op \in RunOps
    /\ ret.tag = "Some"
    /\ ret.value # 0
    /\ machine.ip >= 2
    /\ Mem(machine, machine.ip - 2) \in {4, 204}

(***************************************************************************)
(* C6.  The input queue is FIFO: the queue always holds, oldest at the     *)
(* back, exactly the values passed to input() that no Input instruction    *)
(* has taken; an executed Input instruction takes one value and stores     *)
(* the oldest, the k-th Input the k-th value; no other instruction         *)
(* changes the queue.                                                      *)
(***************************************************************************)
QueueIsUntaken ==
    Reverse(machine.input) = SubSeq(fed, ntaken + 1, Len(fed))

C6_InputQueueIsFifo ==
    [][/\ QueueIsUntaken'
       /\ (pc = "running" /\ OpcodeAt(machine) = "Input" /\ machine.input # <<>>) =>
            /\ ntaken' = ntaken + 1
            /\ pc' # "panicked" =>
                  Mem(machine', EffectiveAddress(machine, 0)) = fed[ntaken + 1]
       /\ (pc = "running" /\ OpcodeAt(machine) # "Input") =>
            machine'.input = machine.input]_vars

\* Two Input instructions have run on different values while a third
\* value was buffered.
C6_Witness ==
    /\ ntaken = 2
    /\ Len(fed) = 3
    /\ fed[1] # fed[2]
    /\ Len(machine.input) = 1

(***************************************************************************)
(* C7.  Halt and starvation are distinguishable: right after run() has     *)
(* returned None, is_halted() and is_awaiting_input() both answer, one of  *)
(* them true and the other false, and is_awaiting_input() is true exactly  *)
(* when the machine stands at an Input instruction with an empty queue.    *)
(***************************************************************************)
C7_HaltOrStarved ==
    (pc = "idle" /\ op \in RunOps /\ ret = None) =>
        /\ ~is_halted(machine).panic
        /\ ~is_awaiting_input(machine).panic
        /\ Halted(machine) # AwaitingInput(machine)
        /\ AwaitingInput(machine) <=>
              (OpcodeAt(machine) = "Input" /\ machine.input = <<>>)

\* run() has returned None at a starved Input after consuming a value.
C7_Witness == Starved /\ ntaken > 0

(***************************************************************************)
(* C5.  Resumability: as long as no run() of the machine with everything   *)
(* buffered up front has consumed more than one input, the j-th            *)
(* run_with_input of the split machine returns what the j-th run() of the  *)
(* buffered machine returns, after equally many calls, all returned, the   *)
(* two machines have the same instruction pointer, relative base and       *)
(* memory, and after all n calls the same input queue too.                 *)
(***************************************************************************)
OnePerPause(j) == \A i \in 1..j : shadow.readsB[i] <= 1

C5_Resumability ==
    /\ \A j \in 1..Len(shadow.outA) :
          (j <= Len(shadow.outB) /\ OnePerPause(j)) =>
              shadow.outA[j] = shadow.outB[j]
    /\ (/\ pc = "idle"
        /\ Len(shadow.outA) = Len(shadow.outB)
        /\ OnePerPause(Len(shadow.outB))) =>
          /\ machine.ip = shadow.machine.ip
          /\ machine.rbo = shadow.machine.rbo
          /\ machine.memory = shadow.machine.memory
          /\ Len(shadow.outA) = Len(shadow.inputs) => machine = shadow.machine

\* Both machines have made three calls that returned three different
\* values and have reached the same state.
C5_Witness ==
    /\ pc = "idle"
    /\ Len(shadow.outA) = 3
    /\ Len(shadow.outB) = 3
    /\ OnePerPause(3)
    /\ shadow.outA[1].tag = "Some"
    /\ shadow.outA[3].tag = "Some"
    /\ Cardinality({shadow.outA[j] : j \in 1..3}) = 3
    /\ machine = shadow.machine

\* Without the premise the two machines differ: a program that reads two
\* inputs before its first output pauses the split machine with None.
C5_PremiseNeeded ==
    /\ Len(shadow.outA) >= 1
    /\ Len(shadow.outB) >= 1
    /\ shadow.readsB[1] = 2
    /\ shadow.outA[1] = None
    /\ shadow.outB[1].tag = "Some"

(***************************************************************************)
(* C8.  Reading is total and free of side effects: read(a) leaves the      *)
(* machine as it was, and on a machine that has executed nothing and has   *)
(* not been written it returns P[a] for a below the length of the program  *)
(* P and 0 for every other address.                                        *)
(***************************************************************************)
C8_ReadIsTotalAndPure ==
    [][op' = "read" =>
        /\ pc' = "idle"
        /\ machine' = machine
        /\ (steps = 0 /\ writes = 0) =>
              ret' = I64(IF arg'.address < Len(program)
                         THEN program[arg'.address + 1] ELSE 0)]_vars

\* A fresh machine has been read at an address beyond its program.
C8_Witness ==
    /\ op = "read"
    /\ steps = 0
    /\ writes = 0
    /\ arg.address > Len(program)
    /\ ret = I64(0)
    /\ machine.memory = program

C10_MemoryNeverShrinks ==
    [][Len(machine'.memory) >= Len(machine.memory)]_vars

\* What holds of the code: the memory is never shorter after a call that
\* returns, and no shorter on a panic of a build with overflow checks.
C10_NeverShrinksUnlessWrapped ==
    [][(pc' # "panicked" \/ overflow_checks) =>
          Len(machine'.memory) >= Len(machine.memory)]_vars


(***************************************************************************)
(* SpecWords: decoding as a function of the word.  The machine is built    *)
(* from a one-word program, any i64, and Decode(param_index) applies       *)
(* Opcode::new and ParameterMode::new to the word at ip.                   *)
(***************************************************************************)
Words == I64_MIN..I64_MAX

InitWords ==
    /\ program \in {<<w>> : w \in Words}
    /\ InitMachine
    /\ shadow = NoShadow

Decoded(opcode, mode) ==
    [tag |-> "Instruction", value |-> 0, opcode |-> opcode, mode |-> mode]

Decode(param_index) ==
    /\ pc = "idle"
    /\ op' = "decode"
    /\ arg' = Arg(param_index, read(machine, machine.ip))
    /\ ret' = Decoded(read_instruction(machine).opcode,
                      ParameterMode_new(read_instruction(machine).value,
                                        param_index))
    /\ UNCHANGED <<overflow_checks, program, machine, pc, steps, writes, fed,
                   ntaken, pending, shadow>>

NextWords == \E param_index \in 0..2 : Decode(param_index)

SpecWords == InitWords /\ [][NextWords]_vars

\* The instruction table: the opcode of a number and the mode of a digit.
OpcodeOfNumber(n) ==
    CASE n = 1 -> "Add"
      [] n = 2 -> "Mul"
      [] n = 3 -> "Input"
      [] n = 4 -> "Output"
      [] n = 5 -> "JumpIfTrue"
      [] n = 6 -> "JumpIfFalse"
      [] n = 7 -> "LessThan"
      [] n = 8 -> "Equals"
      [] n = 9 -> "AdjustRelativeBase"
      [] n = 99 -> "Halt"
      [] OTHER -> "panic"

ModeOfDigit(d) ==
    CASE d = 0 -> "Position"
      [] d = 1 -> "Immediate"
      [] d = 2 -> "Relative"
      [] OTHER -> "panic"

\* The decimal digit of w at 10^k, for w >= 0.
Digit(w, k) == (w \div (10 ^ k)) % 10

(***************************************************************************)
(* C11.  Instruction decoding: for every word w >= 0 the decoded opcode    *)
(* is the opcode numbered w mod 100, the mode of operand i = 0, 1, 2 is    *)
(* the mode of the decimal digit floor(w / 100 / 10^i) mod 10 (0 Position, *)
(* 1 Immediate, 2 Relative), and an operand whose digit is absent          *)
(* (w < 100 * 10^i) is in Position mode.                                   *)
(***************************************************************************)
C11_InstructionDecoding ==
    (op = "decode" /\ arg.value >= 0) =>
        /\ ret.opcode = OpcodeOfNumber(arg.value % 100)
        /\ ret.mode = ModeOfDigit(Digit(arg.value, 2 + arg.address))
        /\ arg.value < 100 * (10 ^ arg.address) => ret.mode = "Position"

C11_Witness ==
    /\ op = "decode"
    /\ arg = Arg(1, 1002)
    /\ ret = Decoded("Mul", "Immediate")


(***************************************************************************)
(* SpecDecode: the execution protocol on programs that hold words no       *)
(* instruction table entry covers: unknown opcodes, negative words,        *)
(* unknown mode digits and Immediate write targets.                        *)
(***************************************************************************)
DecodePrograms ==
    { <<104, 5>>,
      <<98>>,
      <<100, 0>>,
      <<-1>>,
      <<-99, 0, 0, 0, 99>>,
      <<104, 7, -199>>,
      <<3, 0, 50>>,
      <<3, 0, 1006, 0, -1, 99>>,
      <<304, 0, 99>>,
      <<3001, 0, 0, 0, 99>>,
      <<30001, 0, 0, 0, 99>>,
      <<303, 0, 99>>,
      <<3005, 2, 0, 99>>,
      <<3005, 3, 0, 99>>,
      <<3006, 3, 0, 99>>,
      <<309, 0, 99>>,
      <<30104, 7, 99>>,
      <<11101, 1, 2, 0, 99>>,
      <<10002, 4, 4, 0, 99>>,
      <<10007, 7, 0, 0, 99>>,
      <<11108, 1, 1, 0, 99>>,
      <<103, 0, 99>>,
      <<3, 0, 10001, 0, 0, 0, 99>> }

InitDecode ==
    /\ program \in DecodePrograms
    /\ InitMachine
    /\ shadow = NoShadow

SpecDecode == InitDecode /\ [][Next]_vars

\* The word at the instruction pointer.
Word(m) == Mem(m, m.ip)

\* The opcode part of a word is one of 1..9 or 99.
KnownOpcode(w) == w >= 0 /\ w % 100 \in (1..9) \cup {99}

\* The number of operands of the instruction of word w.
Arity(w) ==
    CASE w % 100 \in {1, 2, 7, 8} -> 3
      [] w % 100 \in {5, 6} -> 2
      [] w % 100 \in {3, 4, 9} -> 1
      [] OTHER -> 0

\* An Input instruction with nothing buffered pauses; it is not executed.
Executing(m) ==
    /\ pc = "running"
    /\ KnownOpcode(Word(m))
    /\ ~(Word(m) % 100 = 3 /\ m.input = <<>>)

(***************************************************************************)
(* C12.  Unknown opcodes fail closed: when run() is at a word whose        *)
(* opcode part is not one of 1..9 or 99, the word 0 and every negative     *)
(* word included, the step panics, run() returns no value, and the         *)
(* instruction pointer, relative base, memory and input queue are as they  *)
(* were.                                                                   *)
(***************************************************************************)
C12_UnknownOpcodeFailsClosed ==
    [][(pc = "running" /\ ~KnownOpcode(Word(machine))) =>
            /\ pc' = "panicked"
            /\ ret' = Unit
            /\ machine' = machine]_vars

C12_Witness ==
    /\ pc = "panicked"
    /\ op \in RunOps
    /\ ret = Unit
    /\ machine.ip > 0
    /\ Word(machine) < 0


\* Operand i of the instruction at ip has a mode digit other than 0, 1, 2.
UnknownMode(m, i) == i < Arity(Word(m)) /\ Digit(Word(m), 2 + i) \notin {0, 1, 2}

\* The operands the instruction at ip resolves: all of them, except the
\* target of a jump whose condition is false.
Resolves(m, i) ==
    /\ i < Arity(Word(m))
    /\ (Word(m) % 100 \in {5, 6} /\ i = 1) =>
          /\ ~UnknownMode(m, 0)
          /\ (Word(m) % 100 = 5) = (OperandValue(m, 0) # 0)

(***************************************************************************)
(* C13.  Unknown parameter-mode digits are fatal: executing an instruction *)
(* in which the mode digit of one of its operands is not 0, 1 or 2 panics, *)
(* for every opcode and every operand position of that opcode, the target  *)
(* operand of a jump whose condition is false included.                    *)
(***************************************************************************)
C13_UnknownModeIsFatal ==
    [][(Executing(machine) /\ \E i \in 0..2 : UnknownMode(machine, i)) =>
            pc' = "panicked"]_vars

\* What the code does: the mode digit of an operand is decoded when the
\* operand is resolved, and an unknown digit of such an operand panics.
C13_UnknownModeOfResolvedOperandIsFatal ==
    [][(/\ Executing(machine)
        /\ \E i \in 0..2 : UnknownMode(machine, i) /\ Resolves(machine, i)) =>
            pc' = "panicked"]_vars

\* A jump whose condition is false passes over the unknown mode digit of
\* its target operand.
C13_JumpNotTaken ==
    /\ pc = "idle"
    /\ program = <<3005, 2, 0, 99>>
    /\ machine.ip = 3
    /\ ret = None

(***************************************************************************)
(* C14.  Writing through an Immediate-mode operand is fatal: executing     *)
(* Add, Mul, LessThan or Equals whose third operand is in mode 1, or       *)
(* Input whose operand is in mode 1, panics, and no memory cell holds      *)
(* another value than before.                                              *)
(***************************************************************************)
ImmediateWrite(m) ==
    \/ Word(m) % 100 \in {1, 2, 7, 8} /\ Digit(Word(m), 4) = 1
    \/ Word(m) % 100 = 3 /\ Digit(Word(m), 2) = 1

C14_ImmediateWriteIsFatal ==
    [][(Executing(machine) /\ ImmediateWrite(machine)) =>
            /\ pc' = "panicked"
            /\ \A a \in 0..(Len(machine'.memory) - 1) :
                  Mem(machine', a) = Mem(machine, a)]_vars

C14_Witness ==
    /\ pc = "panicked"
    /\ KnownOpcode(Word(machine))
    /\ Word(machine) % 100 = 7
    /\ ImmediateWrite(machine)
    /\ Len(machine.memory) > Len(program)


(***************************************************************************)
(* SpecCopy: a Program and the Machines constructed from it, with the      *)
(* Vec buffers as objects.  shadow.heap is the sequence of allocated       *)
(* buffers, shadow.program the buffer of the Program, and each machine of  *)
(* shadow.machines holds the buffer of its memory in place of the          *)
(* contents.  `program` stays the Program as first parsed.                 *)
(***************************************************************************)
CopyPrograms ==
    { <<1, 0, 0, 0, 99>>,
      <<3, 0, 4, 0, 99>>,
      <<1101, 1, 2, 9, 4, 9, 99>> }

\* The positions patched and written, the last beyond every program, and
\* the value written and fed.
CopyPositions == {0, 1, 9}

CopyValues == {2}

InitCopy ==
    /\ program \in CopyPrograms
    /\ InitMachine
    /\ shadow = [heap |-> <<program>>, program |-> 1, machines |-> <<>>]

\* Mutant of clone: the new Vec is the buffer of the old one.
clone_shallow(heap, buf) == [heap |-> heap, ref |-> buf]

\* Vec::clone: a new buffer with the same contents.
clone(heap, buf) == [heap |-> Append(heap, heap[buf]), ref |-> Len(heap) + 1]

\* Program::write: self.0[position] = value panics out of bounds.
Program_write(p, position, value) ==
    IF position >= Len(p)
    THEN [panic |-> TRUE, val |-> p]
    ELSE [panic |-> FALSE, val |-> [p EXCEPT ![position + 1] = value]]

\* The contents of the Program, and machine k with its memory's contents.
ProgramOf(store) == store.heap[store.program]

Deref(store, k) == [store.machines[k] EXCEPT !.memory = store.heap[@]]

\* The store after a method left machine k as m.
Stored(store, k, m) ==
    [store EXCEPT !.heap[store.machines[k].memory] = m.memory,
                  !.machines[k] = [m EXCEPT !.memory = store.machines[k].memory]]

Target(k, address, value) ==
    [address |-> address, value |-> value, machine |-> k]

\* Machine::new(&program)
New ==
    /\ pc = "idle"
    /\ Len(shadow.machines) < MaxMachines
    /\ Let(clone(shadow.heap, shadow.program), LAMBDA c :
           shadow' = [shadow EXCEPT
                        !.heap = c.heap,
                        !.machines = Append(@, [ip |-> 0, rbo |-> 0,
                                                memory |-> c.ref,
                                                input |-> <<>>])])
    /\ op' = "new"
    /\ arg' = Target(Len(shadow.machines) + 1, 0, 0)
    /\ ret' = Unit
    /\ UNCHANGED <<overflow_checks, program, machine, pc, steps, writes, fed,
                   ntaken, pending>>

\* program.write(position, value)
PatchProgram(position, value) ==
    /\ pc = "idle"
    /\ steps < MaxCalls
    /\ Let(Program_write(ProgramOf(shadow), position, value), LAMBDA o :
           /\ shadow' = [shadow EXCEPT !.heap[shadow.program] = o.val]
           /\ pc' = IF o.panic THEN "panicked" ELSE "idle")
    /\ op' = "Program::write"
    /\ arg' = Target(0, position, value)
    /\ ret' = Unit
    /\ steps' = steps + 1
    /\ UNCHANGED <<overflow_checks, program, machine, writes, fed, ntaken,
                   pending>>

\* machines[k].input(value)
MachineInput(k, value) ==
    /\ pc = "idle"
    /\ steps < MaxCalls
    /\ k <= Len(shadow.machines)
    /\ shadow' = Stored(shadow, k, input(Deref(shadow, k), value))
    /\ op' = "input"
    /\ arg' = Target(k, 0, value)
    /\ ret' = Unit
    /\ steps' = steps + 1
    /\ UNCHANGED <<overflow_checks, program, machine, pc, writes, fed,
                   ntaken, pending>>

\* machines[k].run()
MachineRun(k) ==
    /\ pc = "idle"
    /\ steps < MaxCalls
    /\ k <= Len(shadow.machines)
    /\ Let(run(Deref(shadow, k)), LAMBDA r :
           /\ r.returned \/ r.panic
           /\ shadow' = Stored(shadow, k, r.m)
           /\ pc' = IF r.panic THEN "panicked" ELSE "idle"
           /\ ret' = IF r.panic THEN Unit ELSE r.val)
    /\ op' = "run"
    /\ arg' = Target(k, 0, 0)
    /\ steps' = steps + 1
    /\ UNCHANGED <<overflow_checks, program, machine, writes, fed, ntaken,
                   pending>>

\* machines[k].write(address, value)
MachineWrite(k, address, value) ==
    /\ pc = "idle"
    /\ steps < MaxCalls
    /\ k <= Len(shadow.machines)
    /\ Let(write(Deref(shadow, k), address, value), LAMBDA o :
           /\ shadow' = Stored(shadow, k, o.m)
           /\ pc' = IF o.panic THEN "panicked" ELSE "idle")
    /\ op' = "write"
    /\ arg' = Target(k, address, value)
    /\ ret' = Unit
    /\ steps' = steps + 1
    /\ UNCHANGED <<overflow_checks, program, machine, writes, fed, ntaken,
                   pending>>

NextCopy ==
    \/ New
    \/ \E position \in CopyPositions, value \in CopyValues :
          PatchProgram(position, value)
    \/ \E k \in 1..MaxMachines, value \in CopyValues : MachineInput(k, value)
    \/ \E k \in 1..MaxMachines : MachineRun(k)
    \/ \E k \in 1..MaxMachines, address \in CopyPositions,
          value \in CopyValues : MachineWrite(k, address, value)

SpecCopy == InitCopy /\ [][NextCopy]_vars

(***************************************************************************)
(* C15.  A Machine is a deep copy of its Program: input(), run() and       *)
(* write() on a machine change neither the Program nor any other machine;  *)
(* Program::write changes no machine that exists; and Machine::new gives   *)
(* a machine whose memory is the Program as patched so far, leaving the    *)
(* Program and the other machines as they were.                            *)
(***************************************************************************)
OthersKept(k) ==
    \A j \in 1..Len(shadow.machines) :
        j # k => Deref(shadow', j) = Deref(shadow, j)

C15_MachineIsDeepCopy ==
    [][/\ op' \in {"input", "run", "write"} =>
            /\ ProgramOf(shadow') = ProgramOf(shadow)
            /\ OthersKept(arg'.machine)
       /\ op' = "Program::write" => OthersKept(0)
       /\ op' = "new" =>
            /\ ProgramOf(shadow') = ProgramOf(shadow)
            /\ OthersKept(0)
            /\ Deref(shadow', Len(shadow'.machines))
                  = Machine_new(ProgramOf(shadow))]_vars

\* Two machines of one Program, the second built after a patch the first
\* does not see, the first having run and changed its own memory.
C15_Witness ==
    /\ pc = "idle"
    /\ Len(shadow.machines) = 2
    /\ ProgramOf(shadow) # program
    /\ Deref(shadow, 1).ip > 0
    /\ Deref(shadow, 1).memory[2] = program[2]
    /\ Deref(shadow, 2).memory[2] = ProgramOf(shadow)[2]
    /\ ProgramOf(shadow)[2] # program[2]
    /\ Deref(shadow, 1).memory[1] # program[1]


(***************************************************************************)
(* SpecIter: run_as_iter() and run_as_ascii().  A RunAsIter borrows the    *)
(* machine mutably: while it lives (pc = "iterating") the machine is       *)
(* reached through its next() alone.  collect() drops the iterator at the  *)
(* first None; a caller may drop it sooner.  shadow.outputs is every       *)
(* value the machine has output, shadow.collected the values of the        *)
(* iterator that lives or lived last.                                      *)
(***************************************************************************)
Quine == <<109, 1, 204, -1, 1001, 100, 1, 100, 1008, 100, 16, 101, 1006, 101, 0, 99>>

IterPrograms ==
    { Quine,
      <<104, 1, 104, 2, 104, 3, 99>>,
      <<3, 0, 4, 0, 99>>,
      <<3, 10, 4, 10, 99>>,
      <<3, 8, 4, 8, 1105, 1, 0>>,
      <<104, 65, 104, 300, 104, -1, 99>>,
      <<104, 5>>,
      <<99>> }

InitIter ==
    /\ program \in IterPrograms
    /\ InitMachine
    /\ shadow = [outputs |-> <<>>, collected |-> <<>>]

\* Mutant of RunAsIter_next: the program is run from its start.
RunAsIter_next_restarts(m) == run(Machine_new(program))

\* RunAsIter::next
RunAsIter_next(m) == run(m)

\* Mutant of `v as u8`: the value saturates at the bounds of u8.
as_u8_saturating(v) == IF v < 0 THEN 0 ELSE IF v > 255 THEN 255 ELSE v

\* `v as u8`: the low eight bits.
as_u8(v) == v % 256

\* collect() on a RunAsIter: next() until its first None, at most fuel
\* values.
RECURSIVE collect(_, _, _)
collect(m, acc, fuel) ==
    Let(RunAsIter_next(m), LAMBDA r :
        IF r.panic \/ ~r.returned \/ fuel = 0
        THEN [m |-> r.m, panic |-> r.panic, val |-> acc, returned |-> FALSE]
        ELSE IF r.val = None
        THEN [m |-> r.m, panic |-> FALSE, val |-> acc, returned |-> TRUE]
        ELSE collect(r.m, Append(acc, r.val.value), fuel - 1))

\* run_as_iter().map(|v| v as u8 as char).collect(); out is the values
\* before the map.
run_as_ascii(m) ==
    Let(collect(m, <<>>, MaxOutputs), LAMBDA c :
        [m |-> c.m, panic |-> c.panic, returned |-> c.returned, out |-> c.val,
         val |-> [i \in 1..Len(c.val) |-> as_u8(c.val[i])]])

String(chars) == [tag |-> "String", value |-> chars]

\* run_as_iter(): the iterator is constructed; nothing runs.
RunAsIter ==
    /\ pc = "idle"
    /\ pc' = "iterating"
    /\ op' = "run_as_iter"
    /\ arg' = Arg(0, 0)
    /\ ret' = Unit
    /\ shadow' = [shadow EXCEPT !.collected = <<>>]
    /\ pending' = NoPending
    /\ UNCHANGED <<overflow_checks, program, machine, steps, writes, fed,
                   ntaken>>

\* next() on the living iterator.
IterNext ==
    /\ pc = "iterating"
    /\ Let(RunAsIter_next(machine), LAMBDA r :
           /\ r.returned \/ r.panic
           /\ machine' = r.m
           /\ pc' = IF r.panic THEN "panicked"
                    ELSE IF r.val = None THEN "idle" ELSE "iterating"
           /\ ret' = IF r.panic THEN Unit ELSE r.val
           /\ ntaken' = ntaken + (Len(machine.input) - Len(r.m.input))
           /\ shadow' = IF r.panic \/ r.val = None
                        THEN shadow
                        ELSE [shadow EXCEPT
                                !.outputs = Append(@, r.val.value),
                                !.collected = Append(@, r.val.value)])
    /\ op' = "next"
    /\ arg' = Arg(0, 0)
    /\ pending' = NoPending
    /\ UNCHANGED <<overflow_checks, program, steps, writes, fed>>

\* The iterator is dropped before it returned None.
IterDrop ==
    /\ pc = "iterating"
    /\ pc' = "idle"
    /\ op' = "drop"
    /\ arg' = Arg(0, 0)
    /\ ret' = Unit
    /\ UNCHANGED <<overflow_checks, program, machine, steps, writes, fed,
                   ntaken, pending, shadow>>

\* run_as_ascii()
RunAsAscii ==
    /\ pc = "idle"
    /\ Let(run_as_ascii(machine), LAMBDA r :
           /\ r.returned \/ r.panic
           /\ machine' = r.m
           /\ pc' = IF r.panic THEN "panicked" ELSE "idle"
           /\ ret' = IF r.panic THEN Unit ELSE String(r.val)
           /\ ntaken' = ntaken + (Len(machine.input) - Len(r.m.input))
           /\ shadow' = [shadow EXCEPT !.outputs = @ \o r.out])
    /\ op' = "run_as_ascii"
    /\ arg' = Arg(0, 0)
    /\ pending' = NoPending
    /\ UNCHANGED <<overflow_checks, program, steps, writes, fed>>

\* The value fed to the programs that read input.
IterInputValues == {8}

NextIter ==
    \/ \E value \in IterInputValues : Input(value)
    \/ RunAsIter
    \/ IterNext
    \/ IterDrop
    \/ RunAsAscii

SpecIter == InitIter /\ [][NextIter]_vars

IsPrefix(s, t) == Len(s) <= Len(t) /\ s = SubSeq(t, 1, Len(s))

(***************************************************************************)
(* C16.  Quine round trip: the program 109,1,204,-1,1001,100,1,100,1008,   *)
(* 100,16,101,1006,101,0,99 given no input never panics, the values its    *)
(* run() calls return are, in order, its own initial memory, and when a    *)
(* run() returns None all 16 have been output and the machine is halted.   *)
(***************************************************************************)
C16_QuineRoundTrip ==
    (program = Quine /\ fed = <<>> /\ writes = 0) =>
        /\ pc # "panicked"
        /\ IsPrefix(shadow.outputs, program)
        /\ (op = "next" /\ ret = None) =>
              /\ shadow.outputs = program
              /\ Halted(machine)

C16_Witness ==
    /\ program = Quine
    /\ fed = <<>>
    /\ op = "next"
    /\ ret = None
    /\ Len(shadow.outputs) = 16
    /\ shadow.collected = program
    /\ Halted(machine)


(***************************************************************************)
(* C17.  run_as_iter is run() repeated: each next() leaves the machine as  *)
(* run() would and returns what run() would return; the values collected   *)
(* are the Some values in order, and the first None ends the sequence      *)
(* without being part of it; constructing an iterator, the first or a      *)
(* later one, leaves the machine as it is, so that a later iterator        *)
(* continues where the machine stands.                                     *)
(***************************************************************************)
C17_RunAsIterIsRunRepeated ==
    [][/\ op' = "next" =>
            Let(run(machine), LAMBDA r :
                IF r.panic
                THEN pc' = "panicked"
                ELSE /\ machine' = r.m
                     /\ ret' = r.val
                     /\ r.val = None =>
                          /\ pc' = "idle"
                          /\ shadow'.collected = shadow.collected
                     /\ r.val # None =>
                          /\ pc' = "iterating"
                          /\ shadow'.collected
                                = Append(shadow.collected, r.val.value))
       /\ op' = "run_as_iter" =>
            /\ machine' = machine
            /\ shadow'.collected = <<>>]_vars

\* A second iterator on <<104, 1, 104, 2, 104, 3, 99>> yields 2 after the
\* first, dropped early, yielded 1.
C17_Witness ==
    /\ program = <<104, 1, 104, 2, 104, 3, 99>>
    /\ pc = "iterating"
    /\ op = "next"
    /\ ret = Some(2)
    /\ shadow.collected = <<2>>
    /\ shadow.outputs = <<1, 2>>

(***************************************************************************)
(* C18.  The sequence of run_as_iter and of run_as_ascii ends only when    *)
(* the machine has halted: whenever next() has returned None, or           *)
(* run_as_ascii() has returned, is_halted() is true.                       *)
(***************************************************************************)
C18_IterEndsOnlyWhenHalted ==
    (/\ pc = "idle"
     /\ \/ op = "next" /\ ret = None
        \/ op = "run_as_ascii") =>
        Halted(machine)

\* What the code does: the sequence ends where run() returns None, at a
\* Halt or at an Input with nothing buffered.
C18_IterEndsAtPause ==
    (/\ pc = "idle"
     /\ \/ op = "next" /\ ret = None
        \/ op = "run_as_ascii") =>
        \/ Halted(machine)
        \/ AwaitingInput(machine) /\ machine.input = <<>>

\* The iterator has ended on a machine that awaits input.
C18_EndedStarved ==
    /\ pc = "idle"
    /\ op = "next"
    /\ ret = None
    /\ shadow.collected = <<8>>
    /\ ~Halted(machine)
    /\ AwaitingInput(machine)


(***************************************************************************)
(* SpecAscii: input_ascii() and input() before and between iterators and   *)
(* run_as_ascii() calls, the protocol of the text drivers.  A line is the  *)
(* sequence of its chars, each the i64 of `c as i64`.                      *)
(***************************************************************************)
Echo == <<3, 8, 4, 8, 1105, 1, 0>>

AsciiPrograms ==
    { Echo,
      <<3, 0, 3, 1, 4, 0, 4, 1, 99>>,
      <<3, 0, 4, 0, 99>>,
      <<104, 65, 104, 10, 99>> }

\* "", "A" and "NO"
AsciiLines == { <<>>, <<65>>, <<78, 79>> }

InitAscii ==
    /\ program \in AsciiPrograms
    /\ InitMachine
    /\ shadow = [outputs |-> <<>>, collected |-> <<>>]

\* for c in ascii_line.chars() { self.input(c as i64) }
RECURSIVE input_chars(_, _)
input_chars(m, chars) ==
    IF chars = <<>> THEN m ELSE input_chars(input(m, Head(chars)), Tail(chars))

\* Mutant of input_ascii: no newline follows the line.
input_ascii_no_newline(m, ascii_line) == input_chars(m, ascii_line)

input_ascii(m, ascii_line) == input(input_chars(m, ascii_line), 10)

InputAscii(ascii_line) ==
    /\ pc = "idle"
    /\ Len(fed) + Len(ascii_line) + 1 <= MaxAsciiInputs
    /\ machine' = input_ascii(machine, ascii_line)
    /\ op' = "input_ascii"
    /\ arg' = Arg(0, ascii_line)
    /\ ret' = Unit
    /\ fed' = fed \o ascii_line \o <<10>>
    /\ pending' = NoPending
    /\ UNCHANGED <<overflow_checks, program, pc, steps, writes, ntaken, shadow>>

NextAscii ==
    \/ \E ascii_line \in AsciiLines : InputAscii(ascii_line)
    \/ \E value \in IterInputValues : Input(value)
    \/ RunAsIter
    \/ IterNext
    \/ IterDrop
    \/ RunAsAscii

SpecAscii == InitAscii /\ [][NextAscii]_vars

\* The input queue, oldest value first.
Queue(m) == Reverse(m.input)

(***************************************************************************)
(* C19.  input_ascii(s) puts behind every value already buffered the       *)
(* character codes of s, left to right, and then the newline code 10, and  *)
(* changes nothing else of the machine; the values Input instructions      *)
(* have taken and the values still queued are together, in this order,     *)
(* the lines and values fed in call order; the echo program outputs them   *)
(* in that order.                                                          *)
(***************************************************************************)
C19_InputAsciiAppendsLine ==
    [][/\ op' = "input_ascii" =>
            /\ Queue(machine') = Queue(machine) \o arg'.value \o <<10>>
            /\ [machine' EXCEPT !.input = <<>>] = [machine EXCEPT !.input = <<>>]
       /\ pc' # "panicked" =>
            /\ ntaken' <= Len(fed')
            /\ Queue(machine') = SubSeq(fed', ntaken' + 1, Len(fed'))
       /\ (program = Echo /\ pc' # "panicked") =>
            shadow'.outputs = SubSeq(fed', 1, Len(shadow'.outputs))]_vars

\* Two lines, "NO" and "A", fed in a row and echoed up to the A.
C19_Witness ==
    /\ program = Echo
    /\ fed = <<78, 79, 10, 65, 10>>
    /\ shadow.outputs = <<78, 79, 10, 65>>
    /\ Queue(machine) = <<10>>
    /\ op = "next"


(***************************************************************************)
(* SpecArith: Add, Mul and Output on operands from the whole i64 range,    *)
(* in the shapes of the programs of test_machine_run: both operands        *)
(* Immediate, both Position, and an Immediate output.                      *)
(***************************************************************************)
ArithValues == {I64_MIN, -150, -1, 0, 1, 2, 150, 16384, I64_MAX}

ArithPrograms ==
    {<<1101, a, b, 7, 4, 7, 99, 0>> : a \in ArithValues, b \in ArithValues}
        \cup {<<1102, a, b, 7, 4, 7, 99, 0>> : a \in ArithValues, b \in ArithValues}
        \cup {<<1, 7, 8, 9, 4, 9, 99, a, b, 0>> : a \in ArithValues, b \in ArithValues}
        \cup {<<2, 7, 8, 9, 4, 9, 99, a, b, 0>> : a \in ArithValues, b \in ArithValues}
        \cup {<<104, a, 99>> : a \in ArithValues}

InitArith ==
    /\ program \in ArithPrograms
    /\ InitMachine
    /\ shadow = NoShadow

NextArith ==
    \/ Run
    \/ Step

SpecArith == InitArith /\ [][NextArith]_vars

InI64(x) == x >= I64_MIN /\ x <= I64_MAX

\* The mathematical result of the Add or Mul at ip.
Exact(m) ==
    IF Word(m) % 100 = 1
    THEN OperandValue(m, 0) + OperandValue(m, 1)
    ELSE OperandValue(m, 0) * OperandValue(m, 1)

(***************************************************************************)
(* C20.  Values are full signed 64-bit integers: an Add or Mul whose       *)
(* mathematical sum or product lies in the i64 range stores exactly that   *)
(* value at its target and goes on, and an Output of an Immediate operand  *)
(* returns the operand, whatever i64 it is.                                *)
(***************************************************************************)
C20_ValuesAreI64 ==
    [][/\ (/\ pc = "running"
           /\ KnownOpcode(Word(machine))
           /\ Word(machine) % 100 \in {1, 2}
           /\ InI64(Exact(machine))) =>
                /\ pc' = "running"
                /\ Mem(machine', EffectiveAddress(machine, 2)) = Exact(machine)
       /\ (pc = "running" /\ Word(machine) = 104) =>
                /\ pc' = "idle"
                /\ ret' = Some(Operand(machine, 0))]_vars

\* The product of test_machine_run at the model's scale: 150 * 150 is
\* beyond half the width.
C20_Witness ==
    /\ program = <<1102, 150, 150, 7, 4, 7, 99, 0>>
    /\ pc = "idle"
    /\ ret = Some(22500)


(***************************************************************************)
(* C21.  The instruction pointer is a valid index at every decode: each    *)
(* time run() decodes an instruction, the instruction pointer is below     *)
(* the memory length.                                                      *)
(***************************************************************************)
C21_IpIsValidAtDecode ==
    pc = "running" => machine.ip < Len(machine.memory)

\* What the code does: an instruction pointer at or beyond the memory
\* length is decoded too; the word read is 0, and the decode panics with
\* the machine as it was.  Every instruction that executes has its
\* instruction pointer below the length.
C21_DecodeBeyondMemoryPanics ==
    [][(pc = "running" /\ machine.ip >= Len(machine.memory)) =>
            /\ pc' = "panicked"
            /\ machine' = machine]_vars

\* run() has panicked decoding at an instruction pointer a jump set
\* beyond the memory.
C21_Witness ==
    /\ pc = "panicked"
    /\ op \in RunOps
    /\ machine.ip > Len(machine.memory)
    /\ steps > 0


\* The instruction at ip is one that reads its operands and writes none.
ReadsOnly(m) == KnownOpcode(Word(m)) /\ Word(m) % 100 \in {4, 5, 6, 9}

(***************************************************************************)
(* C22.  Operand reads never change memory: an Output, JumpIfTrue,         *)
(* JumpIfFalse or AdjustRelativeBase leaves memory, contents and length,   *)
(* as it was, whatever address its operands read.                          *)
(***************************************************************************)
C22_OperandReadsKeepMemory ==
    [][(pc = "running" /\ ReadsOnly(machine)) =>
            machine'.memory = machine.memory]_vars

\* What the code does: an operand read at or beyond the length lengthens
\* memory to that address with zeros; every address reads as before.
C22_OperandReadsGrowWithZeros ==
    [][(pc = "running" /\ ReadsOnly(machine) /\ pc' # "panicked") =>
            /\ Len(machine'.memory) >= Len(machine.memory)
            /\ SameReads(machine, machine')]_vars

\* An Output of address 12 of a three-word program has returned 0 and
\* left thirteen words of memory.
C22_GrownByRead ==
    /\ program = <<4, 12, 99>>
    /\ pc = "idle"
    /\ ret = Some(0)
    /\ Len(machine.memory) = 13


(***************************************************************************)
(* SpecInstr: the execution protocol on programs that take every           *)
(* instruction through every operand mode: the comparison and jump         *)
(* programs of test_machine_run, and programs with Relative operands, a    *)
(* relative base that goes negative, and stores into their own operands.   *)
(***************************************************************************)
InstrPrograms ==
    { <<3, 9, 8, 9, 10, 9, 4, 9, 99, -1, 8>>,
      <<3, 3, 1108, -1, 8, 3, 4, 3, 99>>,
      <<3, 9, 7, 9, 10, 9, 4, 9, 99, -1, 8>>,
      <<3, 3, 1107, -1, 8, 3, 4, 3, 99>>,
      <<3, 3, 1105, -1, 9, 1101, 0, 0, 12, 4, 12, 99, 1>>,
      <<3, 9, 6, 9, 8, 104, 1, 99, 7, 0>>,
      <<3, 9, 5, 9, 8, 104, 1, 99, 7, 0>>,
      <<1, 0, 0, 0, 99>>,
      <<2, 4, 4, 5, 99, 0>>,
      <<1002, 4, 3, 4, 33>>,
      <<1101, 100, -1, 4, 0>>,
      <<1101, 1, 2, 9, 4, 9, 99>>,
      <<109, 2, 203, 3, 204, 3, 99>>,
      <<109, 3, 21101, 4, 3, 7, 204, 7, 99>>,
      <<109, 1, 22201, 0, 1, 2, 4, 3, 99>>,
      <<109, 1, 9, 1, 22207, 0, 1, 5, 204, 5, 99>>,
      <<109, 5, 109, -3, 2208, 4, 5, 9, 204, 7, 99>>,
      <<109, -2, 204, 1, 99>>,
      <<109, 5, 1205, -5, 6, 99, 2106, 0, -4>>,
      <<1105, 1, 0>>,
      <<1105, 1, -1>>,
      <<9, 12, 99>>,
      <<1101, I64_MAX, 1, 0, 99>> }

InitInstr ==
    /\ program \in InstrPrograms
    /\ InitMachine
    /\ shadow = NoShadow

SpecInstr == InitInstr /\ [][Next]_vars

\* The instruction at ip is Add, Mul, LessThan or Equals.
Binary(m) == KnownOpcode(Word(m)) /\ Word(m) % 100 \in {1, 2, 7, 8}

\* What the instruction table gives for the binary instruction at ip.
BinaryResult(m) ==
    Let(OperandValue(m, 0), LAMBDA a :
    Let(OperandValue(m, 1), LAMBDA b :
        CASE Word(m) % 100 = 1 -> a + b
          [] Word(m) % 100 = 2 -> a * b
          [] Word(m) % 100 = 7 -> IF a < b THEN 1 ELSE 0
          [] OTHER -> IF a = b THEN 1 ELSE 0))

(***************************************************************************)
(* C23.  Binary operations: an Add, Mul, LessThan or Equals at address a   *)
(* that does not abort, its result in the i64 range, stores read(p0) +     *)
(* read(p1), read(p0) * read(p1), 1 if read(p0) < read(p1) else 0, or 1    *)
(* if read(p0) = read(p1) else 0 at the effective address of the third     *)
(* operand, the operands read as memory was before the store; the          *)
(* instruction pointer becomes a + 4, and the relative base, the input     *)
(* queue and every other cell memory had are unchanged.                    *)
(***************************************************************************)
C23_BinaryOperations ==
    [][(/\ pc = "running"
        /\ Binary(machine)
        /\ InI64(BinaryResult(machine))
        /\ pc' # "panicked") =>
            /\ Mem(machine', EffectiveAddress(machine, 2)) = BinaryResult(machine)
            /\ machine'.ip = machine.ip + 4
            /\ machine'.rbo = machine.rbo
            /\ machine'.input = machine.input
            /\ pc' = "running"
            /\ \A a \in 0..(Len(machine.memory) - 1) :
                  a # EffectiveAddress(machine, 2) =>
                      Mem(machine', a) = Mem(machine, a)]_vars

\* A LessThan with Relative operands, 9 < 1, has stored 0 over its own
\* third operand.
C23_Witness ==
    /\ program = <<109, 1, 9, 1, 22207, 0, 1, 5, 204, 5, 99>>
    /\ pc = "running"
    /\ machine.ip = 8
    /\ machine.rbo = 2
    /\ machine.memory[8] = 0


\* Where a taken jump to target t leaves the instruction pointer: at t,
\* and for a negative t beyond every memory (t as usize).
JumpsTo(m, t) == IF t >= 0 THEN m.ip = t ELSE m.ip > VEC_MAX_LEN

(***************************************************************************)
(* C24.  Conditional jumps: a JumpIfTrue at address a that does not abort  *)
(* sets the instruction pointer to read(p1) when read(p0) # 0 and to       *)
(* a + 3 otherwise; JumpIfFalse sets it to read(p1) when read(p0) = 0 and  *)
(* to a + 3 otherwise; Halt leaves it, and every other instruction that    *)
(* executes adds 1 + its operand count.  A negative read(p1) is cast to    *)
(* usize: the instruction pointer is then beyond every memory.             *)
(***************************************************************************)
C24_ConditionalJumps ==
    [][(Executing(machine) /\ pc' # "panicked") =>
            CASE Word(machine) % 100 = 5 ->
                    IF OperandValue(machine, 0) # 0
                    THEN JumpsTo(machine', OperandValue(machine, 1))
                    ELSE machine'.ip = machine.ip + 3
              [] Word(machine) % 100 = 6 ->
                    IF OperandValue(machine, 0) = 0
                    THEN JumpsTo(machine', OperandValue(machine, 1))
                    ELSE machine'.ip = machine.ip + 3
              [] Word(machine) % 100 = 99 -> machine'.ip = machine.ip
              [] OTHER ->
                    machine'.ip = machine.ip + 1 + Arity(Word(machine))]_vars

\* Both jumps taken, the second to a target read through a Relative
\* operand, ending at the Halt at address 5.
C24_Witness ==
    /\ program = <<109, 5, 1205, -5, 6, 99, 2106, 0, -4>>
    /\ pc = "idle"
    /\ ret = None
    /\ machine.ip = 5
    /\ machine.rbo = 5


\* The instruction at ip is AdjustRelativeBase and its sum is an i64.
Adjusts(m) ==
    /\ Word(m) % 100 = 9
    /\ InI64(m.rbo + OperandValue(m, 0))

\* Relative operands are read from and written to relative base + operand,
\* and no instruction but AdjustRelativeBase changes the relative base.
RelativeOperands ==
    /\ (Executing(machine) /\ Word(machine) % 100 # 9) =>
            machine'.rbo = machine.rbo
    /\ (/\ Executing(machine)
        /\ Word(machine) % 100 = 4
        /\ Digit(Word(machine), 2) = 2
        /\ pc' # "panicked") =>
            ret' = Some(Mem(machine, machine.rbo + Operand(machine, 0)))
    /\ (/\ Executing(machine)
        /\ Word(machine) % 100 = 3
        /\ Digit(Word(machine), 2) = 2
        /\ pc' # "panicked") =>
            Mem(machine', machine.rbo + Operand(machine, 0))
                = Head(Queue(machine))

(***************************************************************************)
(* C25.  Relative addressing: the relative base starts at 0; an            *)
(* AdjustRelativeBase that does not abort adds read(p0) to it, adds 2 to   *)
(* the instruction pointer and changes nothing else, memory and the input  *)
(* queue included; a Relative operand k is read from, and as a target      *)
(* written to, address relative base + k, with the relative base the       *)
(* instruction finds; no other instruction changes the relative base.      *)
(***************************************************************************)
C25_RelativeAddressing ==
    /\ machine.rbo = 0
    /\ [][/\ (Executing(machine) /\ Adjusts(machine) /\ pc' # "panicked") =>
                /\ machine'.rbo = machine.rbo + OperandValue(machine, 0)
                /\ machine'.ip = machine.ip + 2
                /\ machine'.memory = machine.memory
                /\ machine'.input = machine.input
          /\ RelativeOperands]_vars

\* What the code does: the operand read of AdjustRelativeBase can lengthen
\* memory with zeros; everything else is as stated.
C25_RelativeAddressingWithGrowth ==
    /\ machine.rbo = 0
    /\ [][/\ (Executing(machine) /\ Adjusts(machine) /\ pc' # "panicked") =>
                /\ machine'.rbo = machine.rbo + OperandValue(machine, 0)
                /\ machine'.ip = machine.ip + 2
                /\ Len(machine'.memory) >= Len(machine.memory)
                /\ SameReads(machine, machine')
                /\ machine'.input = machine.input
          /\ RelativeOperands]_vars

\* An AdjustRelativeBase of address 12 of a three-word program has left
\* the relative base at 0 and thirteen words of memory.
C25_GrownByAdjust ==
    /\ program = <<9, 12, 99>>
    /\ machine.ip = 2
    /\ machine.rbo = 0
    /\ Len(machine.memory) = 13


(***************************************************************************)
(* SpecQuery: is_halted() and is_awaiting_input() between the calls of     *)
(* input(), write() and run().  A query borrows the machine immutably, so  *)
(* it happens only while no run() is in progress; it panics, as every      *)
(* decode does, when the word at ip has no opcode.                         *)
(***************************************************************************)
QueryPrograms ==
    { <<1002, 4, 3, 4, 33>>,
      <<104, 5>>,
      <<3, 0, 99>>,
      <<1101, 1, 1, 0, 99>> }

InitQuery ==
    /\ program \in QueryPrograms
    /\ InitMachine
    /\ shadow = NoShadow

IsHalted ==
    /\ pc = "idle"
    /\ op' = "is_halted"
    /\ arg' = Arg(0, 0)
    /\ Let(is_halted(machine), LAMBDA o :
           /\ pc' = IF o.panic THEN "panicked" ELSE "idle"
           /\ ret' = IF o.panic THEN Unit ELSE Bool(o.val))
    /\ UNCHANGED <<overflow_checks, program, machine, steps, writes, fed,
                   ntaken, pending, shadow>>

IsAwaitingInput ==
    /\ pc = "idle"
    /\ op' = "is_awaiting_input"
    /\ arg' = Arg(0, 0)
    /\ Let(is_awaiting_input(machine), LAMBDA o :
           /\ pc' = IF o.panic THEN "panicked" ELSE "idle"
           /\ ret' = IF o.panic THEN Unit ELSE Bool(o.val))
    /\ UNCHANGED <<overflow_checks, program, machine, steps, writes, fed,
                   ntaken, pending, shadow>>

\* The addresses written between runs: the instruction pointer of each
\* program at its pauses, and an operand.
QueryAddresses == {0, 2, 4}

QueryInputValues == {8}

NextQuery ==
    \/ \E value \in QueryInputValues : Input(value)
    \/ Run
    \/ Step
    \/ \E address \in QueryAddresses, value \in WriteValues :
          Write(address, value)
    \/ IsHalted
    \/ IsAwaitingInput

SpecQuery == InitQuery /\ [][NextQuery]_vars

\* The word now stored at the instruction pointer decodes to opcode.
DecodesTo(m, opcode) ==
    KnownOpcode(Word(m)) /\ OpcodeOfNumber(Word(m) % 100) = opcode

\* What the last query must have returned, the machine being as the query
\* saw it: no operation leaves op at the name of a query but the query.
QueryOf == IF op = "is_halted" THEN "Halt" ELSE "Input"

\* One step of run() is the instruction of the word now at ip: an unknown
\* opcode aborts, Halt and a starved Input return None, an Output returns
\* its operand, and every other instruction that does not abort stays in
\* the loop, the instruction pointer past its operands unless it is a jump.
StepDecodesCurrentWord ==
    pc = "running" =>
        /\ ~KnownOpcode(Word(machine)) =>
              (pc' = "panicked" /\ machine' = machine)
        /\ (DecodesTo(machine, "Halt")
              \/ (DecodesTo(machine, "Input") /\ machine.input = <<>>)) =>
              (pc' = "idle" /\ ret' = None /\ machine' = machine)
        /\ (DecodesTo(machine, "Output") /\ pc' # "panicked") =>
              (pc' = "idle" /\ ret' = Some(OperandValue(machine, 0)))
        /\ (Executing(machine) /\ Word(machine) % 100 \notin {4, 99}
              /\ pc' # "panicked") =>
              /\ pc' = "running"
              /\ Word(machine) % 100 \notin {5, 6} =>
                    machine'.ip = machine.ip + Arity(Word(machine)) + 1

(***************************************************************************)
(* C26.  Nothing about the current instruction is cached: is_halted()      *)
(* returns whether the word now stored at the instruction pointer decodes  *)
(* to Halt and is_awaiting_input() whether it decodes to Input, in every   *)
(* state, and each step of run() is the instruction of the word now in     *)
(* memory.  As stated, with the queries answering in every state.          *)
(***************************************************************************)
C26_NothingCached ==
    /\ [](op \in {"is_halted", "is_awaiting_input"} =>
            /\ pc = "idle"
            /\ ret = Bool(DecodesTo(machine, QueryOf)))
    /\ [][StepDecodesCurrentWord]_vars

(***************************************************************************)
(* C26, amended.  The queries answer from the word now stored at the       *)
(* instruction pointer wherever that word has an opcode, and abort, as a   *)
(* step of run() does, wherever it has none; each step of run() is the     *)
(* instruction of the word now in memory.                                  *)
(***************************************************************************)
C26_NothingCachedWhereDecodable ==
    /\ [](op \in {"is_halted", "is_awaiting_input"} =>
            IF KnownOpcode(Word(machine))
            THEN pc = "idle" /\ ret = Bool(DecodesTo(machine, QueryOf))
            ELSE pc = "panicked" /\ ret = Unit)
    /\ [][StepDecodesCurrentWord]_vars

\* 1002,4,3,4,33 overwrote its last word with 99 and halted there; a public
\* write() then stored 2 over that Halt, and is_halted() answers false.
C26_Witness ==
    /\ program = <<1002, 4, 3, 4, 33>>
    /\ machine.ip = 4
    /\ steps > 0
    /\ writes > 0
    /\ machine.memory[5] = 2
    /\ pc = "idle"
    /\ op = "is_halted"
    /\ ret = Bool(FALSE)

\* is_halted() was called with the instruction pointer past the program.
C26_QueryAborted ==
    /\ program = <<104, 5>>
    /\ machine.ip = 2
    /\ op = "is_halted"
    /\ pc = "panicked"


\* The three pause conditions of run() at the word now at ip.
AtHalt(m) == DecodesTo(m, "Halt")

AtStarvedInput(m) == DecodesTo(m, "Input") /\ m.input = <<>>

AtOutput(m) == DecodesTo(m, "Output")

(***************************************************************************)
(* C27.  run() returns only at a pause condition: a step of the loop       *)
(* returns exactly when the instruction at ip is a Halt (None), an Input   *)
(* with an empty queue (None) or an Output that executed (Some of its      *)
(* operand); every other instruction that does not abort stays in the      *)
(* loop, so that the run() of a jump to itself never returns.              *)
(***************************************************************************)
C27_RunReturnsOnlyAtPause ==
    /\ [][pc = "running" =>
            /\ pc' = "idle" =>
                  \/ AtHalt(machine) /\ ret' = None
                  \/ AtStarvedInput(machine) /\ ret' = None
                  \/ AtOutput(machine) /\ ret' = Some(OperandValue(machine, 0))
            /\ ~(AtHalt(machine) \/ AtStarvedInput(machine) \/ AtOutput(machine))
                  => pc' \in {"running", "panicked"}]_vars
    /\ []((program = <<1105, 1, 0>> /\ op \in RunOps) => pc = "running")

\* The first run() of a program without Input returned Some from its only
\* Output after executing the three instructions before it.
C27_Witness ==
    /\ program = <<109, 5, 109, -3, 2208, 4, 5, 9, 204, 7, 99>>
    /\ pc = "idle"
    /\ op = "run"
    /\ ret.tag = "Some"
    /\ machine.ip = 10
    /\ steps = 4

\* run() of the jump to itself is in its loop, a value buffered.
C27_Spinning ==
    /\ program = <<1105, 1, 0>>
    /\ pc = "running"
    /\ machine.input # <<>>


(***************************************************************************)
(* SpecAmp: day07's Amplifier, a Vec of machines built from one program,   *)
(* each holding its phase setting.  shadow is the Amplifier and the        *)
(* position of the call in progress: amp is the accumulator of the fold    *)
(* of run_with_amplitude and k the machine its closure is called on next.  *)
(* initials, received, returned and results are the history of the calls:  *)
(* the initial amplitude and the result of every pass, and for every       *)
(* machine the argument and the result of each of its run_with_input       *)
(* calls.                                                                  *)
(***************************************************************************)
\* test_max_thruster_signal's first program: 10 * amplitude + phase.
Thruster == <<3, 15, 3, 16, 1002, 16, 10, 16, 1, 16, 15, 15, 4, 15, 99, 0, 0>>

\* test_max_feedback_thruster_signal's first program, its loop counter 2.
Feedback ==
    <<3, 26, 1001, 26, -4, 26, 3, 27, 1002, 27, 2, 27, 1, 27, 26, 27, 4, 27,
      1001, 28, -1, 28, 1005, 28, 6, 99, 0, 0, 2>>

\* Phase 0 outputs its input plus one for ever; every other phase echoes
\* one input, and halts at its next run, one instruction later.
Relay ==
    <<3, 25, 1005, 25, 16, 3, 26, 101, 1, 26, 26, 4, 26, 1105, 1, 5,
      3, 26, 4, 26, 1101, 0, 0, 26, 99, 0, 0>>

AmpPrograms == {Thruster, Feedback, Relay, <<3, 0, 99>>, <<99>>}

AmpSettings ==
    {<<>>, <<1>>, <<0, 1>>, <<1, 0>>, <<0, 0>>, <<5, 6>>, <<2, 1, 0>>,
     <<0, 2, 1>>}

with_input(p, value) == input(Machine_new(p), value)

\* Mutant of unwrap_or: a machine that returned None yields 0.
unwrap_or_zero(option, default) ==
    IF option = None THEN 0 ELSE option.value

unwrap_or(option, default) ==
    IF option = None THEN default ELSE option.value

Amplifier_new(p, settings) ==
    [machines |-> [i \in 1..Len(settings) |-> with_input(p, settings[i])],
     settings |-> settings,
     amp |-> 0,
     k |-> 0,
     initials |-> <<>>,
     received |-> [i \in 1..Len(settings) |-> <<>>],
     returned |-> [i \in 1..Len(settings) |-> <<>>],
     results |-> <<>>]

InitAmp ==
    /\ program \in AmpPrograms
    /\ overflow_checks \in BOOLEAN
    /\ machine = Machine_new(program)
    /\ \E settings \in AmpSettings : shadow = Amplifier_new(program, settings)
    /\ pc = "idle"
    /\ op = "Amplifier::new"
    /\ arg = Arg(0, 0)
    /\ ret = Unit
    /\ steps = 0
    /\ writes = 0
    /\ fed = <<>>
    /\ ntaken = 0
    /\ pending = NoPending

\* run_with_amplitude(initial_amplitude) enters its fold.
run_with_amplitude(initial_amplitude) ==
    /\ steps < MaxPasses
    /\ steps' = steps + 1
    /\ pc' = "folding"
    /\ shadow' = [shadow EXCEPT !.amp = initial_amplitude,
                                !.k = 1,
                                !.initials = Append(@, initial_amplitude)]

\* Amplifier::run: self.run_with_amplitude(0).
AmplifierRun ==
    /\ pc = "idle"
    /\ op' = "Amplifier::run"
    /\ run_with_amplitude(0)
    /\ UNCHANGED <<overflow_checks, program, machine, arg, ret, writes, fed,
                   ntaken, pending>>

\* Amplifier::run_feedback: amplitude = 0, and the while loop is reached.
AmplifierRunFeedback ==
    /\ pc = "idle"
    /\ op' = "Amplifier::run_feedback"
    /\ pc' = "checking"
    /\ shadow' = [shadow EXCEPT !.amp = 0]
    /\ UNCHANGED <<overflow_checks, program, machine, arg, ret, steps, writes,
                   fed, ntaken, pending>>

\* Amplifier::is_halted: self.0.last().unwrap().is_halted().
Amplifier_is_halted(amplifier) ==
    IF amplifier.machines = <<>>
    THEN Panic(Machine_new(<<>>))
    ELSE is_halted(amplifier.machines[Len(amplifier.machines)])

\* The condition of the while loop of run_feedback: another pass from the
\* amplitude of the last one, or the return of that amplitude.
FeedbackCheck ==
    /\ pc = "checking"
    /\ Let(Amplifier_is_halted(shadow), LAMBDA halted :
           IF halted.panic
           THEN /\ pc' = "panicked"
                /\ UNCHANGED <<ret, steps, shadow>>
           ELSE IF halted.val
           THEN /\ pc' = "returned"
                /\ ret' = I64(shadow.amp)
                /\ UNCHANGED <<steps, shadow>>
           ELSE /\ run_with_amplitude(shadow.amp)
                /\ ret' = ret)
    /\ UNCHANGED <<overflow_checks, program, machine, op, arg, writes, fed,
                   ntaken, pending>>

\* One call of the closure of the fold:
\* |amp, m| m.run_with_input(amp).unwrap_or(amp) on machine k.
FoldStep ==
    /\ pc = "folding"
    /\ shadow.k <= Len(shadow.machines)
    /\ Let(run_with_input(shadow.machines[shadow.k], shadow.amp), LAMBDA r :
           /\ r.returned \/ r.panic
           /\ pc' = IF r.panic THEN "panicked" ELSE "folding"
           /\ shadow' =
                IF r.panic
                THEN [shadow EXCEPT !.machines[shadow.k] = r.m]
                ELSE [shadow EXCEPT
                        !.machines[shadow.k] = r.m,
                        !.amp = unwrap_or(r.val, shadow.amp),
                        !.k = @ + 1,
                        !.received[shadow.k] = Append(@, shadow.amp),
                        !.returned[shadow.k] = Append(@, r.val)])
    /\ UNCHANGED <<overflow_checks, program, machine, op, arg, ret, steps,
                   writes, fed, ntaken, pending>>

\* The fold is over: run_with_amplitude returns the accumulator, to the
\* caller of Amplifier::run or to the loop of run_feedback.
FoldEnd ==
    /\ pc = "folding"
    /\ shadow.k = Len(shadow.machines) + 1
    /\ shadow' = [shadow EXCEPT !.results = Append(@, shadow.amp)]
    /\ pc' = IF op = "Amplifier::run" THEN "returned" ELSE "checking"
    /\ ret' = IF op = "Amplifier::run" THEN I64(shadow.amp) ELSE ret
    /\ UNCHANGED <<overflow_checks, program, machine, op, arg, steps, writes,
                   fed, ntaken, pending>>

NextAmp ==
    \/ AmplifierRun
    \/ AmplifierRunFeedback
    \/ FeedbackCheck
    \/ FoldStep
    \/ FoldEnd

SpecAmp == InitAmp /\ [][NextAmp]_vars


NumMachines == Len(shadow.machines)

\* The number of passes machine k has taken part in.
Calls(k) == Len(shadow.received[k])

\* What pass p carries out of machine k: the value the machine output in
\* its call of that pass, the value it was given when it output none, and
\* the initial amplitude of the pass before the first machine.
Carried(k, p) ==
    IF k = 0 THEN shadow.initials[p]
    ELSE IF shadow.returned[k][p] = None THEN shadow.received[k][p]
    ELSE shadow.returned[k][p].value

\* The machines are called in Vec order, once each per pass.
VecOrder ==
    pc # "panicked" =>
        \A k \in 1..NumMachines :
            Calls(k) = IF pc = "folding" /\ k >= shadow.k
                       THEN Len(shadow.initials) - 1
                       ELSE Len(shadow.initials)

\* What a machine has not consumed yet are the values it was given last:
\* it consumes its phase setting, then the amplitudes in the order given.
PhaseFirst ==
    \A k \in 1..NumMachines :
        LET given == <<shadow.settings[k]>> \o shadow.received[k]
            queue == Queue(shadow.machines[k])
        IN  /\ Len(queue) <= Len(given)
            /\ queue = SubSeq(given, Len(given) - Len(queue) + 1, Len(given))

(***************************************************************************)
(* C28.  Amplifier chain, as stated: in every pass each machine, in Vec    *)
(* order, is given the value the machine before it output in that pass     *)
(* (the initial amplitude for the first), every machine consumes its       *)
(* phase setting before any amplitude, and the pass returns the value the  *)
(* last machine output.                                                    *)
(***************************************************************************)
C28_AmplifierChain ==
    /\ VecOrder
    /\ PhaseFirst
    /\ \A k \in 1..NumMachines : \A p \in 1..Calls(k) :
          IF k = 1
          THEN shadow.received[k][p] = shadow.initials[p]
          ELSE /\ shadow.returned[k - 1][p] # None
               /\ shadow.received[k][p] = shadow.returned[k - 1][p].value
    /\ \A p \in 1..Len(shadow.results) :
          /\ NumMachines > 0
          /\ shadow.returned[NumMachines][p] # None
          /\ shadow.results[p] = shadow.returned[NumMachines][p].value

(***************************************************************************)
(* C28, amended.  In every pass each machine, in Vec order, is given what  *)
(* the pass carries out of the machine before it: that machine's output,   *)
(* or, when its run returned None, the value that machine was itself       *)
(* given; every machine consumes its phase setting before any amplitude,   *)
(* and the pass returns what it carries out of the last machine.           *)
(***************************************************************************)
C28_AmplifierChainCarries ==
    /\ VecOrder
    /\ PhaseFirst
    /\ \A k \in 1..NumMachines : \A p \in 1..Calls(k) :
          shadow.received[k][p] = Carried(k - 1, p)
    /\ \A p \in 1..Len(shadow.results) :
          shadow.results[p] = Carried(NumMachines, p)
    /\ (pc = "returned" /\ op = "Amplifier::run") =>
          (shadow.initials = <<0>> /\ ret = I64(shadow.results[1]))

\* Amplifier::run on 10 * amplitude + phase with the phases 2, 1, 0
\* returned 210, every machine having output.
C28_Witness ==
    /\ program = Thruster
    /\ shadow.settings = <<2, 1, 0>>
    /\ op = "Amplifier::run"
    /\ pc = "returned"
    /\ ret = I64(210)
    /\ \A k \in 1..3 : shadow.returned[k] # <<None>>

\* A pass has carried an amplitude through a machine that returned None.
C28_CarriedThrough ==
    /\ program = Relay
    /\ shadow.settings = <<0, 1>>
    /\ Len(shadow.results) = 2
    /\ shadow.returned[2][2] = None
    /\ shadow.results[2] = 2


\* SpecAmp with the thread of run_feedback going on at the end of a fold
\* and at the condition of the while loop, where it waits for nothing.
SpecAmpLive == SpecAmp /\ WF_vars(FoldEnd) /\ WF_vars(FeedbackCheck)

LastMachine == shadow.machines[NumMachines]

\* The values machine k itself has output, in order.
Outputs(k) == SelectSeq(shadow.returned[k], LAMBDA r : r # None)

\* The loop of run_feedback returns exactly when the last machine is at a
\* Halt, and goes into another pass otherwise.
FeedbackLoop ==
    (pc = "checking" /\ pc' # "panicked") =>
        (pc' = "returned" <=> (NumMachines > 0 /\ Halted(LastMachine)))

(***************************************************************************)
(* C29.  Feedback loop result, as stated: run_feedback repeats passes      *)
(* until the last machine is halted after a pass, and the value it         *)
(* returns is the last value the last machine itself output.               *)
(***************************************************************************)
C29_FeedbackResult ==
    /\ []((pc = "returned" /\ op = "Amplifier::run_feedback") =>
            /\ Halted(LastMachine)
            /\ Outputs(NumMachines) # <<>>
            /\ ret = I64(Outputs(NumMachines)[Len(Outputs(NumMachines))].value))
    /\ [][FeedbackLoop]_vars

\* What run_feedback returns is the result of its last pass, the value
\* carried out of the last machine, and 0 when it ran no pass.
C29_FeedbackResultIsCarried ==
    /\ []((pc = "returned" /\ op = "Amplifier::run_feedback") =>
            /\ Halted(LastMachine)
            /\ ret = I64(IF shadow.results = <<>> THEN 0
                         ELSE Carried(NumMachines, Len(shadow.results))))
    /\ [][FeedbackLoop]_vars

\* run_feedback terminates once the last machine is at a Halt.
C29_TerminatesWhenLastHalts ==
    (op = "Amplifier::run_feedback" /\ NumMachines > 0 /\ Halted(LastMachine))
        ~> (pc = "returned")

\* run_feedback returned 2, the first machine's output in the last pass;
\* the last machine output 1, once, and halted in the last pass.
C29_ReturnedAnothersOutput ==
    /\ program = Relay
    /\ shadow.settings = <<0, 1>>
    /\ op = "Amplifier::run_feedback"
    /\ pc = "returned"
    /\ ret = I64(2)
    /\ Outputs(2) = <<Some(1)>>
    /\ Outputs(1) = <<Some(1), Some(2)>>

\* run_feedback on the test program returned the last machine's last output.
C29_ReturnedOwnOutput ==
    /\ program = Feedback
    /\ shadow.settings = <<5, 6>>
    /\ op = "Amplifier::run_feedback"
    /\ pc = "returned"
    /\ Len(shadow.results) = 3
    /\ Outputs(2) = <<Some(4), Some(20)>>
    /\ ret = I64(20)


(***************************************************************************)
(* SpecNet: day23's NetworkComputer, a machine built by with_input on its  *)
(* address, queried with is_idle() and fed by run(packet).                 *)
(***************************************************************************)
\* Read the address, then send every value received back as a packet.
Forwarder == <<3, 20, 3, 21, 4, 20, 4, 21, 4, 21, 1105, 1, 2>>

NetPrograms ==
    { Forwarder,
      <<3, 0, 104, 1, 104, 2, 104, 3, 99>>,
      <<3, 0, 104, 1, 99>>,
      <<104, 1, 104, 2, 104, 3, 3, 0, 99>>,
      <<3, 0, 3, 1, 3, 2, 99>>,
      <<3, 0, 3, 1>>,
      <<99>> }

NetAddresses == {0, 1}

Packet(address, x, y) == [address |-> address, x |-> x, y |-> y]

Packets == {Packet(0, 8, 0), Packet(1, 0, -1)}

Vec(elements) == [tag |-> "Vec", value |-> elements]

InitNet ==
    /\ program \in NetPrograms
    /\ overflow_checks \in BOOLEAN
    /\ \E address \in NetAddresses :
          /\ machine = with_input(program, address)
          /\ arg = Arg(address, 0)
          /\ fed = <<address>>
    /\ pc = "idle"
    /\ op = "NetworkComputer::new"
    /\ ret = Unit
    /\ steps = 0
    /\ writes = 0
    /\ ntaken = 0
    /\ pending = NoPending
    /\ shadow = NoShadow

\* The values run(packet) buffers, in order.
PacketInputs(packet) ==
    IF packet.tag = "None" THEN <<-1>> ELSE <<packet.value.x, packet.value.y>>

\* itertools' batching over run_as_iter(), collected: a packet for every
\* three values, until the first next() of a batch is None.  The unwrap of
\* the second and of the third panics on None.
RECURSIVE batching(_, _, _)
batching(m, packets, fuel) ==
    IF fuel = 0
    THEN [m |-> m, panic |-> FALSE, returned |-> FALSE, val |-> packets]
    ELSE
    Let(RunAsIter_next(m), LAMBDA a :
        IF a.panic \/ ~a.returned \/ a.val = None
        THEN [a EXCEPT !.val = packets]
        ELSE
    Let(RunAsIter_next(a.m), LAMBDA x :
        IF x.panic \/ ~x.returned THEN [x EXCEPT !.val = packets]
        ELSE IF x.val = None
        THEN [m |-> x.m, panic |-> TRUE, returned |-> FALSE, val |-> packets]
        ELSE
    Let(RunAsIter_next(x.m), LAMBDA y :
        IF y.panic \/ ~y.returned THEN [y EXCEPT !.val = packets]
        ELSE IF y.val = None
        THEN [m |-> y.m, panic |-> TRUE, returned |-> FALSE, val |-> packets]
        ELSE batching(y.m,
                      Append(packets,
                             Packet(a.val.value, x.val.value, y.val.value)),
                      fuel - 1))))

\* Mutant of NetworkComputer::is_idle: every machine counts as idle.
NetworkComputer_is_idle_always(m) == Ok(m, TRUE)

NetworkComputer_is_idle(m) == is_awaiting_input(m)

\* NetworkComputer::run: the assertion, the inputs, the collected packets.
\* fed is true when the assertion held and the packet was buffered.
NetworkComputer_run(m, packet) ==
    Let(NetworkComputer_is_idle(m), LAMBDA idle :
        IF idle.panic \/ ~idle.val
        THEN [m |-> m, panic |-> TRUE, returned |-> FALSE, val |-> <<>>,
              fed |-> FALSE]
        ELSE
    Let(IF packet.tag = "None"
        THEN input(m, -1)
        ELSE input(input(m, packet.value.x), packet.value.y), LAMBDA buffered :
    Let(batching(buffered, <<>>, MaxPackets), LAMBDA r :
        [m |-> r.m, panic |-> r.panic, returned |-> r.returned, val |-> r.val,
         fed |-> TRUE])))

NetworkComputerIsIdle == IsAwaitingInput

NetworkComputerRun(packet) ==
    /\ pc = "idle"
    /\ steps < MaxCalls
    /\ Let(NetworkComputer_run(machine, packet), LAMBDA r :
           /\ r.returned \/ r.panic
           /\ machine' = r.m
           /\ pc' = IF r.panic THEN "panicked" ELSE "idle"
           /\ ret' = IF r.panic THEN Unit ELSE Vec(r.val)
           /\ fed' = IF r.fed THEN fed \o PacketInputs(packet) ELSE fed)
    /\ op' = "NetworkComputer::run"
    /\ arg' = Arg(arg.address, 0)
    /\ steps' = steps + 1
    /\ UNCHANGED <<overflow_checks, program, writes, ntaken, pending, shadow>>

NextNet ==
    \/ NetworkComputerIsIdle
    \/ NetworkComputerRun(None)
    \/ \E packet \in Packets : NetworkComputerRun(Some(packet))

SpecNet == InitNet /\ [][NextNet]_vars

(***************************************************************************)
(* C30.  is_awaiting_input() depends on the instruction at the             *)
(* instruction pointer only, not on the queue: whenever it returns, it     *)
(* returns whether the word at ip decodes to Input, and it returns true    *)
(* whenever that word decodes to Input, whatever is buffered and whether   *)
(* or not the machine has run; so NetworkComputer::run buffers its packet  *)
(* exactly when the machine is at an Input, the queue empty or not.        *)
(***************************************************************************)
C30_AwaitingInputIgnoresQueue ==
    /\ []((op = "is_awaiting_input" /\ pc = "idle") =>
            ret = Bool(DecodesTo(machine, "Input")))
    /\ []((op = "is_awaiting_input" /\ DecodesTo(machine, "Input")) =>
            (pc = "idle" /\ ret = Bool(TRUE)))
    /\ [][(pc = "idle" /\ op' = "NetworkComputer::run" /\ steps' # steps) =>
            IF DecodesTo(machine, "Input")
            THEN /\ Len(fed') > Len(fed)
                 /\ SubSeq(fed', 1, Len(fed)) = fed
            ELSE pc' = "panicked" /\ machine' = machine /\ fed' = fed]_vars

\* is_awaiting_input() returned true on a machine that has never run and
\* holds its address, right after with_input.
C30_Witness ==
    /\ op = "is_awaiting_input"
    /\ pc = "idle"
    /\ ret = Bool(TRUE)
    /\ steps = 0
    /\ Queue(machine) = <<arg.address>>
    /\ machine.ip = 0

\* NetworkComputer::run passed its assertion on a machine that had never
\* run and held its address, buffered a packet and collected two packets.
C30_FedWhileBuffered ==
    /\ program = Forwarder
    /\ op = "NetworkComputer::run"
    /\ pc = "idle"
    /\ steps = 1
    /\ fed = <<arg.address, 8, 0>>
    /\ Len(ret.value) = 2


Queries == {"is_halted", "is_awaiting_input"}

(***************************************************************************)
(* C31.  The state queries can abort: is_halted() and is_awaiting_input()  *)
(* abort exactly when the word at the instruction pointer has no known     *)
(* opcode, the instruction pointer at or beyond the memory length          *)
(* included, where the word reads as 0; a step of run() aborts on the      *)
(* same words, and neither changes the machine.                            *)
(***************************************************************************)
C31_QueriesAbortAsRunDoes ==
    /\ [](op \in Queries =>
            /\ pc \in {"idle", "panicked"}
            /\ pc = "panicked" <=> ~KnownOpcode(Word(machine))
            /\ pc = "panicked" => ret = Unit)
    /\ [][/\ (pc = "idle" /\ pc' = "panicked" /\ op' \in Queries) =>
                machine' = machine
          /\ (pc = "running" /\ ~KnownOpcode(Word(machine))) =>
                (pc' = "panicked" /\ machine' = machine)]_vars

\* is_awaiting_input() aborted after the Output that is the last cell of
\* 104,5 had been executed: the instruction pointer is the memory length.
C31_Witness ==
    /\ program = <<104, 5>>
    /\ machine.ip = Len(machine.memory)
    /\ steps = 1
    /\ op = "is_awaiting_input"
    /\ pc = "panicked"

\* is_halted() aborted on a word inside the memory: a write() beyond the
\* instruction pointer grew the memory, and the word at ip is a 0 of the fill.
C31_AbortedInsideMemory ==
    /\ op = "is_halted"
    /\ pc = "panicked"
    /\ machine.ip < Len(machine.memory)


(***************************************************************************)
(* SpecNeg: input(), run() and run_with_input() on programs with negative  *)
(* Position operands, negative relative addresses and negative jump        *)
(* targets, for reading and for writing.                                   *)
(***************************************************************************)
NegPrograms ==
    { <<4, -1, 99>>,
      <<4, -2, 99>>,
      <<3, -1, 99>>,
      <<3, -3, 99>>,
      <<1, 0, -1, 0, 99>>,
      <<1, 10, 0, -1, 99>>,
      <<1101, 7, 1, -1, 99>>,
      <<1008, -4, 0, 0, 99>>,
      <<109, -2, 204, 1, 99>>,
      <<109, -5, 204, 1, 99>>,
      <<109, -3, 203, 2, 99>>,
      <<109, -5, 21101, 1, 1, 2, 99>>,
      <<109, -5, 204, 7, 99>>,
      <<9, -1, 99>>,
      <<1005, -1, 0, 99>>,
      <<3, 0, 1006, 0, -1, 99>>,
      <<1105, 1, -1>>,
      <<1105, 1, -3>>,
      <<1105, 0, -3, 99>>,
      <<3, 0, 4, 0, 99>> }

InitNeg ==
    /\ program \in NegPrograms
    /\ InitMachine
    /\ shadow = NoShadow

SpecNeg == InitNeg /\ [][Next]_vars

\* Operand i of the instruction at ip is resolved in Position or Relative
\* mode and its effective address is negative.
NegativeAddress(m, i) ==
    /\ Resolves(m, i)
    /\ ModeOf(m, i) \in {"Position", "Relative"}
    /\ EffectiveAddress(m, i) < 0

\* The instruction at ip is a jump that is taken, to a negative target.
NegativeJump(m) ==
    /\ Word(m) % 100 \in {5, 6}
    /\ Resolves(m, 1)
    /\ OperandValue(m, 1) < 0

\* A step at an instruction pointer beyond the memory aborts at its decode.
AbortsBeyondMemory ==
    (pc = "running" /\ machine.ip >= Len(machine.memory)) =>
        (pc' = "panicked" /\ machine' = machine)

\* A taken jump to a negative target leaves the instruction pointer beyond
\* the memory.
NegativeJumpLeavesMemory ==
    (Executing(machine) /\ NegativeJump(machine) /\ pc' # "panicked") =>
        (pc' = "running" /\ machine'.ip >= Len(machine'.memory))

(***************************************************************************)
(* C32.  Negative addresses never alias valid memory: an instruction that  *)
(* resolves an operand whose effective address is negative, for reading    *)
(* or for writing, aborts, and every address reads after the abort as it   *)
(* did before; a taken jump to a negative target aborts at the next        *)
(* decode.                                                                 *)
(***************************************************************************)
C32_NegativeAddressesAbort ==
    [][/\ (Executing(machine) /\ \E i \in 0..2 : NegativeAddress(machine, i)) =>
             (pc' = "panicked" /\ SameReads(machine, machine'))
       /\ NegativeJumpLeavesMemory
       /\ AbortsBeyondMemory]_vars

\* What holds of the code: the abort in every build, and the memory cells
\* kept with overflow checks; without them address -1 alone empties the
\* memory before the abort, every other negative address keeps the cells.
C32_NegativeAddressesAbortUnlessWrapped ==
    [][/\ (Executing(machine) /\ \E i \in 0..2 : NegativeAddress(machine, i)) =>
             /\ pc' = "panicked"
             /\ (overflow_checks
                   \/ \A i \in 0..2 : NegativeAddress(machine, i) =>
                         EffectiveAddress(machine, i) # -1)
                   => SameReads(machine, machine')
       /\ NegativeJumpLeavesMemory
       /\ AbortsBeyondMemory]_vars

\* The Output of 109,-2,204,1,99 resolved relative address -2 + 1 = -1 in a
\* build without overflow checks: the abort left an empty memory.
C32_Emptied ==
    /\ program = <<109, -2, 204, 1, 99>>
    /\ ~overflow_checks
    /\ pc = "panicked"
    /\ machine.rbo = -2
    /\ machine.memory = <<>>

\* A write to relative address -5 + 2 = -3 aborted with the memory kept,
\* and a jump to -1 aborted at the next decode.
C32_AbortedKept ==
    \/ /\ program = <<109, -5, 21101, 1, 1, 2, 99>>
       /\ pc = "panicked"
       /\ machine.ip = 2
       /\ machine.memory = program
    \/ /\ program = <<1105, 1, -1>>
       /\ pc = "panicked"
       /\ machine.ip = USIZE_MAX


\* The character code in 0..255 that is congruent to v modulo 256.
Low8(v) == CHOOSE c \in 0..255 : (v - c) % 256 = 0

\* The values output since the state before this step.
NewOutputs ==
    SubSeq(shadow'.outputs, Len(shadow.outputs) + 1, Len(shadow'.outputs))

(***************************************************************************)
(* C33.  run_as_ascii keeps only the low 8 bits of each output: the        *)
(* string it returns has, for each value v output during the call and in   *)
(* the order of output, the character of code v mod 256, and the call      *)
(* returns with the machine at the pause that returned None, a Halt or an  *)
(* Input with an empty queue.                                              *)
(***************************************************************************)
C33_RunAsAsciiKeepsLowBits ==
    [][(pc = "idle" /\ pc' = "idle" /\ op' = "run_as_ascii") =>
          /\ ret' = String([i \in 1..Len(NewOutputs) |-> Low8(NewOutputs[i])])
          /\ \/ DecodesTo(machine', "Halt")
             \/ DecodesTo(machine', "Input") /\ machine'.input = <<>>]_vars

\* run_as_ascii() of 104,65,104,300,104,-1,99 returned the characters of
\* codes 65, 44 and 255: neither 300 nor -1 is preserved.
C33_Witness ==
    /\ program = <<104, 65, 104, 300, 104, -1, 99>>
    /\ op = "run_as_ascii"
    /\ pc = "idle"
    /\ shadow.outputs = <<65, 300, -1>>
    /\ ret = String(<<65, 44, 255>>)
    /\ machine.ip = 6

\* run_as_ascii() returned at a starved Input, the string ended there.
C33_EndedAtStarvedInput ==
    /\ program = <<3, 8, 4, 8, 1105, 1, 0>>
    /\ op = "run_as_ascii"
    /\ pc = "idle"
    /\ ret = String(<<8>>)
    /\ machine.ip = 0
    /\ machine.input = <<>>


(***************************************************************************)
(* SpecNetwork: day23's run_network.  shadow holds its locals: machines,   *)
(* queue (index 1 is the front of the VecDeque), nat and                   *)
(* last_delivered_nat, and i, the machine the for loop polls next.  pc is  *)
(* the position in the loop: its top, the for loop, the while loop and     *)
(* the idle test.  The history: given, for each machine the values         *)
(* buffered into it, its address first; stamp, the number of packets       *)
(* queued so far, each queue entry carrying the stamp it was queued        *)
(* with; delivered, the entries handed to machines, and forwarded, the     *)
(* NAT packets sent to machine 0.                                          *)
(***************************************************************************)
\* A value of -1 sends two packets to machine 1; a packet x, y is sent on
\* to address 255.
Fan ==
    <<3, 40, 3, 41, 1008, 41, -1, 43, 1005, 43, 22, 3, 42, 104, 255, 4, 41,
      4, 42, 1105, 1, 2, 104, 1, 104, 1, 104, 2, 104, 1, 104, 3, 104, 4,
      1105, 1, 2>>

\* Every two values read are sent to address 255.
Ping == <<3, 20, 3, 21, 3, 22, 104, 255, 4, 21, 4, 22, 1105, 1, 2>>

\* Every value read is sent to address 255 as x and as y.
Beacon == <<3, 20, 3, 21, 104, 255, 4, 21, 4, 21, 1105, 1, 2>>

NetworkPrograms ==
    { Fan,
      Ping,
      Beacon,
      <<3, 0, 1105, 1, 0>>,
      <<3, 0, 99>>,
      <<3, 20, 3, 21, 104, 255, 4, 21, 4, 21, 99>>,
      <<3, 20, 3, 21, 104, 7, 104, 1, 104, 1, 1105, 1, 2>> }

NetworkModes == {"Part1", "Part2"}

num_machines == MaxMachines

NatAddress == 255

NoPacket == [tag |-> "None", value |-> Packet(0, 0, 0)]

\* VecDeque::extend: the packets are pushed at the back, in order.
extend(queue, msgs, stamp) ==
    queue \o [j \in 1..Len(msgs) |-> [packet |-> msgs[j], stamp |-> stamp + j]]

\* Mutant of VecDeque::pop_back: the packet at the front is taken.
VecDeque_pop_front(queue) ==
    [val |-> queue[1], rest |-> SubSeq(queue, 2, Len(queue))]

VecDeque_pop_back(queue) ==
    [val |-> queue[Len(queue)], rest |-> SubSeq(queue, 1, Len(queue) - 1)]

InitNetwork ==
    /\ program \in NetworkPrograms
    /\ overflow_checks \in BOOLEAN
    /\ machine = Machine_new(program)
    /\ \E mode \in NetworkModes :
          shadow = [mode |-> mode,
                    machines |-> [j \in 1..num_machines |->
                                    with_input(program, j - 1)],
                    queue |-> <<>>,
                    nat |-> NoPacket,
                    last_delivered_nat |-> NoPacket,
                    i |-> 0,
                    given |-> [j \in 1..num_machines |-> <<j - 1>>],
                    stamp |-> 0,
                    delivered |-> <<>>,
                    forwarded |-> <<>>]
    /\ pc = "top"
    /\ op = "run_network"
    /\ arg = Arg(0, 0)
    /\ ret = Unit
    /\ steps = 0
    /\ writes = 0
    /\ fed = <<>>
    /\ ntaken = 0
    /\ pending = NoPending

\* machines[k].run(packet) inside run_network, and queue.extend of what it
\* returns; k counts from 1, and entry is the queue entry of the packet.
\* The loop goes on at position next.
Deliver(k, packet, entry, queue, next) ==
    /\ steps < MaxRuns
    /\ steps' = steps + 1
    /\ Let(NetworkComputer_run(shadow.machines[k], packet), LAMBDA r :
           /\ r.returned \/ r.panic
           /\ pc' = IF r.panic THEN "panicked"
                    ELSE IF next = "polling" /\ r.val = <<>>
                    THEN (IF k = num_machines THEN "draining" ELSE "polling")
                    ELSE IF next = "polling" THEN "draining"
                    ELSE next
           /\ shadow' =
                [shadow EXCEPT
                   !.machines[k] = r.m,
                   !.given[k] = IF r.fed THEN @ \o PacketInputs(packet) ELSE @,
                   !.queue = IF r.panic THEN queue
                             ELSE extend(queue, r.val, shadow.stamp),
                   !.stamp = IF r.panic THEN @ ELSE @ + Len(r.val),
                   !.i = IF next = "polling" THEN k + 1 ELSE @,
                   !.delivered = IF next = "draining" /\ r.fed
                                 THEN Append(@, entry)
                                 ELSE @,
                   !.nat = IF next = "top" /\ ~r.panic THEN NoPacket ELSE @,
                   !.last_delivered_nat =
                        IF next = "top" /\ ~r.panic THEN shadow.nat ELSE @,
                   !.forwarded = IF next = "top" /\ r.fed
                                 THEN Append(@, packet.value) ELSE @])

\* The top of the loop: `if queue.is_empty()` enters the for loop.
LoopTop ==
    /\ pc = "top"
    /\ pc' = IF shadow.queue = <<>> /\ num_machines > 0
             THEN "polling" ELSE "draining"
    /\ shadow' = [shadow EXCEPT !.i = 1]
    /\ UNCHANGED <<overflow_checks, program, machine, op, arg, ret, steps,
                   writes, fed, ntaken, pending>>

\* One iteration of the for loop: m.run(None), the loop left at the first
\* machine that sends.
Poll ==
    /\ pc = "polling"
    /\ Deliver(shadow.i, None, 0, shadow.queue, "polling")
    /\ UNCHANGED <<overflow_checks, program, machine, op, arg, ret, writes,
                   fed, ntaken, pending>>

\* One iteration of the while loop: queue.pop_back(), and the packet
\* returned, kept as the NAT's or run on the machine of its address.
Drain ==
    /\ pc = "draining"
    /\ IF shadow.queue = <<>>
       THEN /\ pc' = IF shadow.mode = "Part2" THEN "nat" ELSE "top"
            /\ UNCHANGED <<shadow, ret, steps>>
       ELSE
       Let(VecDeque_pop_back(shadow.queue), LAMBDA popped :
       Let(popped.val.packet, LAMBDA msg :
       Let(as_usize(msg.address), LAMBDA address :
           IF address = NatAddress
           THEN IF shadow.mode = "Part1"
                THEN /\ pc' = "returned"
                     /\ ret' = I64(msg.y)
                     /\ shadow' = [shadow EXCEPT !.queue = popped.rest]
                     /\ steps' = steps
                ELSE /\ pc' = "draining"
                     /\ shadow' = [shadow EXCEPT !.queue = popped.rest,
                                                 !.nat = Some(msg)]
                     /\ UNCHANGED <<ret, steps>>
           ELSE IF address >= num_machines
           THEN /\ pc' = "panicked"
                /\ shadow' = [shadow EXCEPT !.queue = popped.rest]
                /\ UNCHANGED <<ret, steps>>
           ELSE /\ Deliver(address + 1, Some(msg), popped.val, popped.rest,
                           "draining")
                /\ ret' = ret)))
    /\ UNCHANGED <<overflow_checks, program, machine, op, arg, writes, fed,
                   ntaken, pending>>

\* machines.iter().all(|m| m.is_idle()): the machines in order up to the
\* first that is not idle; is_idle() panics as is_awaiting_input() does.
RECURSIVE all_idle(_, _)
all_idle(machines, k) ==
    IF k > Len(machines) THEN Ok(Machine_new(<<>>), TRUE)
    ELSE Let(NetworkComputer_is_idle(machines[k]), LAMBDA idle :
             IF idle.panic \/ ~idle.val THEN idle
             ELSE all_idle(machines, k + 1))

\* The idle test of Part2: the NAT's packet is returned when its y is the
\* y of the last one delivered, and run on machine 0 otherwise.
NatCheck ==
    /\ pc = "nat"
    /\ Let(all_idle(shadow.machines, 1), LAMBDA idle :
           IF idle.panic
           THEN /\ pc' = "panicked"
                /\ UNCHANGED <<shadow, ret, steps>>
           ELSE IF ~idle.val \/ shadow.nat.tag = "None"
           THEN /\ pc' = "top"
                /\ UNCHANGED <<shadow, ret, steps>>
           ELSE IF /\ shadow.last_delivered_nat.tag = "Some"
                   /\ shadow.last_delivered_nat.value.y = shadow.nat.value.y
           THEN /\ pc' = "returned"
                /\ ret' = I64(shadow.nat.value.y)
                /\ UNCHANGED <<shadow, steps>>
           ELSE /\ Deliver(1, shadow.nat, 0, shadow.queue, "top")
                /\ ret' = ret)
    /\ UNCHANGED <<overflow_checks, program, machine, op, arg, writes, fed,
                   ntaken, pending>>

NextNetwork ==
    \/ LoopTop
    \/ Poll
    \/ Drain
    \/ NatCheck

SpecNetwork == InitNetwork /\ [][NextNetwork]_vars


\* The entries of the shared queue.
Entries(queue) == {queue[j] : j \in 1..Len(queue)}

\* The packets were appended at the back: the stamps grow from the front
\* to the back of the queue.
AppendedAtBack ==
    \A j \in 1..(Len(shadow.queue) - 1) :
        shadow.queue[j].stamp < shadow.queue[j + 1].stamp

\* The while loop takes the entry queued last, leaves the others in the
\* queue, and what it hands to a machine is that entry.
TakesNewest ==
    (pc = "draining" /\ shadow.queue # <<>> /\ shadow' # shadow) =>
        \E e \in Entries(shadow.queue) :
            /\ \A f \in Entries(shadow.queue) : f.stamp <= e.stamp
            /\ e \notin Entries(shadow'.queue)
            /\ Entries(shadow.queue) \ {e} \subseteq Entries(shadow'.queue)
            /\ shadow'.delivered # shadow.delivered =>
                  shadow'.delivered = Append(shadow.delivered, e)

\* A packet handed to a machine is buffered as x, then y, after what the
\* machine was given before.
BuffersXThenY ==
    shadow'.delivered # shadow.delivered =>
        LET e == shadow'.delivered[Len(shadow'.delivered)]
            k == e.packet.address + 1
        IN  /\ shadow'.given[k] = shadow.given[k] \o <<e.packet.x, e.packet.y>>
            /\ \A j \in 1..num_machines :
                  j # k => shadow'.given[j] = shadow.given[j]

\* What a machine has not consumed are the values it was given last, so
\* that it consumes them in the order given.
ConsumedInOrder ==
    \A k \in 1..num_machines :
        LET given == shadow.given[k]
            queue == Queue(shadow.machines[k])
        IN  /\ Len(queue) <= Len(given)
            /\ queue = SubSeq(given, Len(given) - Len(queue) + 1, Len(given))

(***************************************************************************)
(* C34.  Network delivery order: the packets machines emit are appended    *)
(* to the back of the shared queue and the next packet delivered is taken  *)
(* from the back, the most recently queued first; the x of a delivered     *)
(* packet is buffered and consumed before its y, nothing in between.       *)
(***************************************************************************)
C34_NetworkDeliveryOrder ==
    /\ [](AppendedAtBack /\ ConsumedInOrder)
    /\ [][TakesNewest /\ BuffersXThenY]_vars

\* Machine 0 sent the packets (1, 1, 2) and (1, 3, 4) in that order;
\* machine 1 was handed the second, then the first, and consumed 3, 4, 1, 2
\* after its address.
C34_Witness ==
    /\ program = Fan
    /\ Len(shadow.delivered) = 2
    /\ shadow.delivered[1] = [packet |-> Packet(1, 3, 4), stamp |-> 2]
    /\ shadow.delivered[2] = [packet |-> Packet(1, 1, 2), stamp |-> 1]
    /\ shadow.given[2] = <<1, 3, 4, 1, 2>>
    /\ shadow.machines[2].input = <<>>

\* A step of run_network sends the NAT's packet to machine 0.
Forwards == shadow'.forwarded # shadow.forwarded

(***************************************************************************)
(* C35.  NAT forwarding condition: the stored NAT packet is sent to        *)
(* machine 0 only in Part2 mode and only in a state where the shared       *)
(* queue is empty and every machine is at an Input instruction, whatever   *)
(* the machines were given since the last delivery.                        *)
(***************************************************************************)
C35_NatForwardingCondition ==
    [][Forwards =>
          /\ shadow.mode = "Part2"
          /\ shadow.queue = <<>>
          /\ \A k \in 1..num_machines :
                DecodesTo(shadow.machines[k], "Input")
          /\ shadow.nat.tag = "Some"
          /\ shadow'.forwarded = Append(shadow.forwarded, shadow.nat.value)
          /\ shadow'.given[1] =
                shadow.given[1] \o <<shadow.nat.value.x, shadow.nat.value.y>>]_vars

\* The NAT's packet was sent to machine 0 although machine 1 had never
\* been polled with -1: all it was given are its address and two packets.
C35_Witness ==
    /\ program = Fan
    /\ shadow.mode = "Part2"
    /\ shadow.forwarded = <<Packet(255, 1, 2)>>
    /\ shadow.given[2] = <<1, 3, 4, 1, 2>>
    /\ shadow.given[1] = <<0, -1, 1, 2>>


\* The word at ip is an Input whose operand is in Immediate mode.
ImmediateInput(m) == DecodesTo(m, "Input") /\ Digit(Word(m), 2) = 1

(***************************************************************************)
(* C36.  Order of effects in a faulty Input: an Input whose operand is in  *)
(* Immediate mode takes the oldest buffered value from the queue and then  *)
(* panics, memory and ip as before; with an empty queue it pauses run()    *)
(* with None, the machine unchanged and is_awaiting_input() true.          *)
(***************************************************************************)
C36_FaultyInputTakesFirst ==
    [][(pc = "running" /\ ImmediateInput(machine)) =>
          IF machine.input # <<>>
          THEN /\ pc' = "panicked"
               /\ machine'.input =
                     SubSeq(machine.input, 1, Len(machine.input) - 1)
               /\ ntaken' = ntaken + 1
               /\ machine'.memory = machine.memory
               /\ machine'.ip = machine.ip
               /\ machine'.rbo = machine.rbo
          ELSE /\ pc' = "idle"
               /\ ret' = None
               /\ machine' = machine
               /\ is_awaiting_input(machine') = Ok(machine', TRUE)]_vars

\* 103,0,99 panicked with two values given and the older one taken.
C36_Witness ==
    /\ pc = "panicked"
    /\ ImmediateInput(machine)
    /\ Len(fed) = 2
    /\ ntaken = 1
    /\ machine.input = <<fed[2]>>
    /\ machine.memory = program

\* 103,0,99 paused run() with None on an empty queue.
C36_PausedStarved ==
    /\ pc = "idle"
    /\ op = "run"
    /\ ret = None
    /\ ImmediateInput(machine)
    /\ machine.input = <<>>
    /\ ntaken = 0

=============================================================================
